---- MODULE Spec2Model ----
(***************************************************************************)
(* Query resolution pipeline of the sports e-commerce RAG service:         *)
(* RAGEngine.process_query (cache -> MySQL -> RAG), the Redis QA cache,    *)
(* the MySQL qa_pairs / query_logs tables and the /api/query handler.      *)
(*                                                                         *)
(* Text is a sequence of one-character strings.  Confidence is an integer  *)
(* number of hundredths (0.8 is 80).  Time is in seconds.                  *)
(***************************************************************************)
EXTENDS Integers, Sequences, FiniteSets, TLC

\* ------------------------------------------------------------------ bounds
\* process_query calls in one behaviour
MaxRequests == 2
\* add_qa_pair calls in one behaviour
MaxInserts == 1
\* clock ticks in one behaviour
MaxTicks == 1
\* service restarts in one behaviour (SpecRestart only)
MaxRestarts == 1
\* lines of a document handed to the document processor
MaxLines == 3

\* ------------------------------------------------------- program constants
\* Config.CACHE_EXPIRE_TIME
CACHE_EXPIRE_TIME == 3600
\* search_qa(question, threshold = 0.8), in hundredths
THRESHOLD == 80
\* insert_qa(..., confidence = 1.0), in hundredths
INSERT_CONFIDENCE == 100
\* confidence of the rows init_database.py inserts (0.9), in hundredths
SAMPLE_CONFIDENCE == 90

\* ------------------------------------------------------------ input domains
\* the callers that may be inside process_query at the same time
Callers == {"c1", "c2"}
\* the clock advances in steps of one TTL
TickStep == CACHE_EXPIRE_TIME
\* queries: "a", "a " (trailing blank), "b"
Queries == { <<"a">>, <<"a", " ">>, <<"b">> }
\* answers stored in qa_pairs
Answers == {"ans1", "ans2"}
\* replies of the generative model
Replies == {"gen1", "gen2"}
\* messages of the exceptions the generative model raises
Failures == {"llm timeout", "llm quota"}
\* PYTHONHASHSEED values a process may start with
HashSeeds == {0, 1}

\* Python values of more than one type are records tagged by "kind"
None == [kind |-> "None"]
\* the False that RedisClient.get_cache returns on a failure
PyFalse == [kind |-> "False"]
\* bool(v) of such a value: None and False are falsy, a non-empty dict is truthy
Truthy(v) == v.kind \notin {"None", "False"}

\* ---------------------------------------------------------------- strings
Code(ch) == CASE ch = " " -> 32 [] ch = "a" -> 97 [] ch = "b" -> 98 [] OTHER -> 63

\* builtin hash(str): a function of every character of the string and of the
\* per-process seed (str hashes are salted per interpreter start)
RECURSIVE HashFrom(_, _)
HashFrom(h, s) ==
    IF s = <<>> THEN h
    ELSE HashFrom((h * 31 + Code(Head(s))) % 65536, Tail(s))

PyHash(seed, s) == HashFrom(seed + 7, s)

\* f"qa:{hash(question)}"
QaKey(seed, question) == <<"qa", PyHash(seed, question)>>
\* f"count:{hash(question)}"
CountKey(seed, question) == <<"count", PyHash(seed, question)>>

\* the words of a text: maximal runs of non-blank characters
RECURSIVE WordsFrom(_, _, _)
WordsFrom(s, cur, acc) ==
    IF s = <<>> THEN (IF cur = <<>> THEN acc ELSE acc \cup {cur})
    ELSE IF Head(s) = " "
         THEN WordsFrom(Tail(s), <<>>, IF cur = <<>> THEN acc ELSE acc \cup {cur})
         ELSE WordsFrom(Tail(s), Append(cur, Head(s)), acc)
Words(s) == WordsFrom(s, <<>>, {})

\* str.strip(): the text without leading and trailing blanks
RECURSIVE LStrip(_)
LStrip(s) == IF s # <<>> /\ Head(s) = " " THEN LStrip(Tail(s)) ELSE s
RECURSIVE RStrip(_)
RStrip(s) ==
    IF s # <<>> /\ s[Len(s)] = " " THEN RStrip(SubSeq(s, 1, Len(s) - 1)) ELSE s
Strip(s) == LStrip(RStrip(s))

\* "t in s" of two str values: t is a substring of s
Contains(s, t) ==
    \E i \in 1..(Len(s) - Len(t) + 1) : SubSeq(s, i, i + Len(t) - 1) = t

\* s[:n]
Take(s, n) == SubSeq(s, 1, IF Len(s) < n THEN Len(s) ELSE n)

\* the elements of a list, each once, in the order of their first occurrence
RECURSIVE Distinct(_)
Distinct(s) ==
    IF s = <<>> THEN <<>>
    ELSE LET init == Distinct(SubSeq(s, 1, Len(s) - 1))
             x == s[Len(s)]
         IN  IF \E i \in 1..Len(init) : init[i] = x THEN init ELSE Append(init, x)

\* ------------------------------------------------------------ RedisClient
EmptyMap == [k \in {} |-> 0]
Put(m, k, v) == [x \in DOMAIN m \cup {k} |-> IF x = k THEN v ELSE m[x]]

\* Redis drops a key once its expiry time has come
Live(rd, t) == {k \in DOMAIN rd : rd[k].expireAt < 0 \/ t < rd[k].expireAt}
Purge(rd, t) == [k \in Live(rd, t) |-> rd[k]]

\* set_cache(key, value, expire = None): SETEX with CACHE_EXPIRE_TIME by default;
\* a failure is swallowed and leaves Redis as it was
set_cache(rd, t, key, value, ok) ==
    IF ok
    THEN Put(rd, key, [value |-> value, expireAt |-> t + CACHE_EXPIRE_TIME,
                       ttl |-> CACHE_EXPIRE_TIME])
    ELSE rd

\* get_cache(key): None for a missing key, False on a failure
get_cache(rd, t, key, ok) ==
    IF ~ok THEN PyFalse
    ELSE IF key \in Live(rd, t) THEN rd[key].value
    ELSE None

\* set_qa_cache(question, answer): the key is built from hash(question)
set_qa_cache(rd, t, seed, question, answer, ok) ==
    set_cache(rd, t, QaKey(seed, question),
              [kind |-> "dict", question |-> question, answer |-> answer,
               category |-> "", timestamp |-> t], ok)

\* get_qa_cache(question)
get_qa_cache(rd, t, seed, question, ok) ==
    get_cache(rd, t, QaKey(seed, question), ok)

\* increment_query_count(question): INCR of the count key, which never expires
increment_query_count(rd, t, seed, question, ok) ==
    LET k == CountKey(seed, question) IN
    IF ~ok THEN rd
    ELSE Put(rd, k, [value |-> (IF k \in DOMAIN rd THEN rd[k].value ELSE 0) + 1,
                     expireAt |-> -1, ttl |-> -1])

\* ------------------------------------------------------------ MySQLClient
\* MATCH(question) AGAINST(q IN NATURAL LANGUAGE MODE): the texts share a word
Matches(question, q) == Words(question) \cap Words(q) # {}

\* search_qa without "AND confidence >= %s"
Qualifying_NoThreshold(table, q, threshold) ==
    {r \in table : Matches(r.question, q)}

\* the rows the WHERE clause of search_qa keeps
Qualifying(table, q, threshold) ==
    {r \in table : Matches(r.question, q) /\ r.confidence >= threshold}

\* ORDER BY confidence DESC alone
RankedFirst_ConfidenceOnly(r, s) == r.confidence >= s.confidence

\* ORDER BY confidence DESC, updated_at DESC: r is not ranked below s
RankedFirst(r, s) ==
    \/ r.confidence > s.confidence
    \/ r.confidence = s.confidence /\ r.updated_at >= s.updated_at

\* search_qa(question, threshold = 0.8): the rows LIMIT 1 may deliver (rows equal
\* in both sort keys come in an order MySQL does not fix); None when no row
\* qualifies or the statement fails
search_qa(table, q, ok) ==
    LET rows == Qualifying(table, q, THRESHOLD)
        best == {r \in rows : \A s \in rows : RankedFirst(r, s)}
    IN  IF ok /\ rows # {}
        THEN {[kind |-> "row", row |-> r] : r \in best}
        ELSE {None}

\* id INT AUTO_INCREMENT
NextId(table) ==
    IF table = {} THEN 1
    ELSE 1 + CHOOSE n \in {r.id : r \in table} : \A r \in table : r.id <= n

\* insert_qa(question, answer, category = None, confidence = 1.0)
insert_qa(table, t, question, answer) ==
    table \cup {[id |-> NextId(table), question |-> question,
                 answer |-> answer, confidence |-> INSERT_CONFIDENCE,
                 updated_at |-> t]}

\* log_query(user_id, query, response, source, response_time): a failure is
\* swallowed and appends nothing; "request" tags the row with the request (id)
\* that wrote it
log_query(logs, id, q, reply, source, ok) ==
    IF ok
    THEN Append(logs, [request |-> id, user_id |-> "anonymous", query |-> q,
                       response |-> reply, source |-> source])
    ELSE logs

\* --------------------------------------------------------- QueryOptimizer
\* A Chinese character is written as its romanised name, a digit telling
\* homophones apart: 篮球 is <<"lan", "qiu">>, 什么 is <<"shen2", "me">>.

\* sports_terms of _contains_sports_terms: 篮球 足球 网球 羽毛球 乒乓球 跑步 健身
\* 瑜伽 游泳 骑行 滑雪 高尔夫 棒球 橄榄球 排球
SportsTerms ==
    { <<"lan", "qiu">>, <<"zu", "qiu">>, <<"wang", "qiu">>,
      <<"yu", "mao", "qiu">>, <<"ping", "pang", "qiu">>, <<"pao", "bu">>,
      <<"jian", "shen">>, <<"yu2", "jia">>, <<"you", "yong">>,
      <<"qi", "xing">>, <<"hua", "xue">>, <<"gao", "er", "fu">>,
      <<"bang", "qiu">>, <<"gan", "lan2", "qiu">>, <<"pai", "qiu">> }

\* the further words _init_jieba adds to the segmenter: 护膝 护腕 护肘 护踝 护腰
\* 护肩 护颈 运动鞋 运动服 运动裤 运动内衣 运动袜 哑铃 杠铃 跑步机 动感单车 椭圆机
\* 划船机
GearTerms ==
    { <<"hu", "xi">>, <<"hu", "wan">>, <<"hu", "zhou">>, <<"hu", "huai">>,
      <<"hu", "yao">>, <<"hu", "jian2">>, <<"hu", "jing">>,
      <<"yun", "dong", "xie2">>, <<"yun", "dong", "fu2">>,
      <<"yun", "dong", "ku">>, <<"yun", "dong", "nei", "yi2">>,
      <<"yun", "dong", "wa">>, <<"ya", "ling">>, <<"gang", "ling">>,
      <<"pao", "bu", "ji">>, <<"dong", "gan2", "dan", "che">>,
      <<"tuo", "yuan", "ji">>, <<"hua2", "chuan", "ji">> }

\* words of the segmenter's own dictionary: 篮球鞋 鞋子 多少 什么 怎么 哪个 一个
\* 今天 天气 我们 出去 适合 室外 水泥 耐磨 桌游
BaseWords ==
    { <<"lan", "qiu", "xie2">>, <<"xie2", "zi">>, <<"duo", "shao">>,
      <<"shen2", "me">>, <<"zen", "me">>, <<"na", "ge">>, <<"yi", "ge">>,
      <<"jin", "tian">>, <<"tian", "qi4">>, <<"wo", "men">>, <<"chu", "qu">>,
      <<"shi", "he2">>, <<"shi2", "wai">>, <<"shui", "ni">>, <<"nai", "mo">>,
      <<"zhuo", "you2">> }

Dictionary == SportsTerms \cup GearTerms \cup BaseWords

\* part-of-speech flags of jieba.posseg: nouns 鞋 钱 地 and the dictionary's
\* names of things, verbs 打 买 想 选 玩 出去
Nouns ==
    SportsTerms \cup GearTerms
    \cup { <<"lan", "qiu", "xie2">>, <<"xie2", "zi">>, <<"xie2">>, <<"qian">>,
           <<"di">>, <<"tian", "qi4">>, <<"shui", "ni">>, <<"zhuo", "you2">> }
Verbs == { <<"da">>, <<"mai">>, <<"xiang">>, <<"xuan">>, <<"wan2">>, <<"chu", "qu">> }

\* jieba.cut(text): the text cut into words, the longest dictionary word first,
\* a character of no dictionary word on its own
RECURSIVE jieba_cut(_)
jieba_cut(text) ==
    IF text = <<>> THEN <<>>
    ELSE LET fits == {n \in 1..Len(text) : SubSeq(text, 1, n) \in Dictionary}
             n == IF fits = {} THEN 1
                  ELSE CHOOSE k \in fits : \A j \in fits : j <= k
         IN  <<SubSeq(text, 1, n)>> \o jieba_cut(SubSeq(text, n + 1, Len(text)))

\* pseg.cut(text): the words with their flags
pseg_cut(text) ==
    LET ws == jieba_cut(text) IN
    [i \in 1..Len(ws) |->
        [word |-> ws[i],
         flag |-> IF ws[i] \in Nouns THEN "n"
                  ELSE IF ws[i] \in Verbs THEN "v" ELSE "x"]]

\* jieba.analyse.extract_tags(text, topK=5): the words of two or more
\* characters, each once
extract_tags(text) ==
    Take(Distinct(SelectSeq(jieba_cut(text), LAMBDA w : Len(w) > 1)), 5)

\* the steps of the optimizer that may raise
OptimizerSteps ==
    {"features", "terms", "clean", "decompose", "context", "enhance", "concepts",
     "base_query", "hypotheses", "to_query"}

\* the characters of the class [什么|怎么|如何|为什么|哪个|哪些]
QuestionClass ==
    {"shen2", "me", "|", "zen", "ru", "he", "wei", "na", "ge", "xie"}

\* re.search(r'[什么|怎么|如何|为什么|哪个|哪些]', query)
has_question_words(query) == \E i \in 1..Len(query) : query[i] \in QuestionClass

\* _contains_sports_terms(query); False when the check fails
_contains_sports_terms(query, F) ==
    IF "terms" \in F THEN FALSE
    ELSE \E term \in SportsTerms : Contains(query, term)

\* the rules of _select_best_strategy with the rule for questions about sports
\* tried before the rule for short queries
_select_best_strategy_MarkerFirst(query, F) ==
    IF "features" \in F THEN "direct"
    ELSE LET query_length == Len(query)
             word_count == Len(jieba_cut(query))
             has_sports_terms == _contains_sports_terms(query, F)
         IN  IF has_question_words(query) /\ has_sports_terms THEN "subquery"
             ELSE IF query_length < 10 /\ word_count <= 3 THEN "direct"
             ELSE IF query_length > 20 /\ word_count > 8 THEN "backtrack"
             ELSE IF has_sports_terms /\ ~has_question_words(query)
                  THEN "hypothesis"
             ELSE "direct"

\* the rules of _select_best_strategy with the rule for sports terms tried
\* before the rule for long queries
_select_best_strategy_TermsFirst(query, F) ==
    IF "features" \in F THEN "direct"
    ELSE LET query_length == Len(query)
             word_count == Len(jieba_cut(query))
             has_sports_terms == _contains_sports_terms(query, F)
         IN  IF query_length < 10 /\ word_count <= 3 THEN "direct"
             ELSE IF has_question_words(query) /\ has_sports_terms THEN "subquery"
             ELSE IF has_sports_terms /\ ~has_question_words(query)
                  THEN "hypothesis"
             ELSE IF query_length > 20 /\ word_count > 8 THEN "backtrack"
             ELSE "direct"

\* _select_best_strategy(query); "direct" when the analysis of the query fails
_select_best_strategy(query, F) ==
    IF "features" \in F THEN "direct"
    ELSE LET query_length == Len(query)
             word_count == Len(jieba_cut(query))
             has_sports_terms == _contains_sports_terms(query, F)
         IN  IF query_length < 10 /\ word_count <= 3 THEN "direct"
             ELSE IF has_question_words(query) /\ has_sports_terms THEN "subquery"
             ELSE IF query_length > 20 /\ word_count > 8 THEN "backtrack"
             ELSE IF has_sports_terms /\ ~has_question_words(query)
                  THEN "hypothesis"
             ELSE "direct"

\* re.sub(r'\s+', ' ', s): every run of blanks becomes one blank
RECURSIVE CollapseSpaces(_)
CollapseSpaces(s) ==
    IF Len(s) < 2 THEN s
    ELSE IF s[1] = " " /\ s[2] = " " THEN CollapseSpaces(Tail(s))
    ELSE <<s[1]>> \o CollapseSpaces(Tail(s))

\* characters that are neither word characters, blanks, ? nor !
SpecialChars == {"|", ","}

\* _clean_query(query): strip, one blank per run of blanks, the full-width marks
\* ？ ("?f") and ！ ("!f") as ? and !, special characters removed; the query as it
\* is when the cleaning fails
_clean_query(query, F) ==
    IF "clean" \in F THEN query
    ELSE LET spaced == CollapseSpaces(Strip(query))
             marked == [i \in 1..Len(spaced) |->
                          IF spaced[i] = "?f" THEN "?"
                          ELSE IF spaced[i] = "!f" THEN "!" ELSE spaced[i]]
         IN  SelectSeq(marked, LAMBDA ch : ch \notin SpecialChars)

\* _fallback_optimization(query)
_fallback_optimization(query) ==
    [strategy |-> "fallback", original_query |-> query, optimized_query |-> query,
     sub_queries |-> <<query>>, confidence |-> 50]

\* _direct_retrieval(query)
_direct_retrieval(query, F) ==
    LET optimized_query == _clean_query(query, F) IN
    [strategy |-> "direct", original_query |-> query,
     optimized_query |-> optimized_query, sub_queries |-> <<optimized_query>>,
     confidence |-> 90]

\* the loop of _decompose_query over the flagged words: runs of nouns and runs
\* of verbs are joined into phrases
RECURSIVE DecomposeFrom(_, _, _, _, _)
DecomposeFrom(words, noun_phrases, verb_phrases, current_noun, current_verb) ==
    LET nouns == IF current_noun # <<>> THEN Append(noun_phrases, current_noun)
                 ELSE noun_phrases
        verbs == IF current_verb # <<>> THEN Append(verb_phrases, current_verb)
                 ELSE verb_phrases
    IN  IF words = <<>> THEN [noun_phrases |-> nouns, verb_phrases |-> verbs]
        ELSE IF Head(words).flag = "n"
        THEN DecomposeFrom(Tail(words), noun_phrases, verbs,
                           current_noun \o Head(words).word, <<>>)
        ELSE IF Head(words).flag = "v"
        THEN DecomposeFrom(Tail(words), nouns, verb_phrases,
                           <<>>, current_verb \o Head(words).word)
        ELSE DecomposeFrom(Tail(words), nouns, verbs, <<>>, <<>>)

\* sub_queries[:5] of _decompose_query
MAX_SUB_QUERIES == 5

\* _decompose_query(query): the noun phrases, then the verb phrases, of more than
\* one character, at most five; [query] when the decomposition fails
_decompose_query(query, F) ==
    IF "decompose" \in F THEN <<query>>
    ELSE LET d == DecomposeFrom(pseg_cut(query), <<>>, <<>>, <<>>, <<>>)
             long(p) == Len(p) > 1
         IN  Take(SelectSeq(d.noun_phrases, long) \o SelectSeq(d.verb_phrases, long),
                  MAX_SUB_QUERIES)

\* _get_sports_context(query): 运动装备, 健身器材, 防护装备 or 体育用品; "" when
\* the lookup fails
_get_sports_context(query, F) ==
    LET any(terms) == \E term \in terms : Contains(query, term) IN
    IF "context" \in F THEN <<>>
    ELSE IF any({<<"lan", "qiu">>, <<"zu", "qiu">>, <<"wang", "qiu">>})
    THEN <<"yun", "dong", "zhuang", "bei">>
    ELSE IF any({<<"pao", "bu">>, <<"jian", "shen">>, <<"yu2", "jia">>})
    THEN <<"jian", "shen", "qi3", "cai">>
    ELSE IF any({<<"hu", "xi">>, <<"hu", "wan">>, <<"hu", "zhou">>})
    THEN <<"fang", "hu", "zhuang", "bei">>
    ELSE <<"ti", "yu4", "yong", "pin">>

\* _enhance_sub_query(sub_query, original_query)
_enhance_sub_query(sub_query, original_query, F) ==
    LET sports_context == _get_sports_context(original_query, F) IN
    IF "enhance" \in F THEN sub_query
    ELSE IF sports_context # <<>> THEN sub_query \o <<" ">> \o sports_context
    ELSE sub_query

\* _subquery_retrieval(query)
_subquery_retrieval(query, F) ==
    LET sub_queries == _decompose_query(query, F) IN
    [strategy |-> "subquery", original_query |-> query, optimized_query |-> query,
     sub_queries |-> [i \in 1..Len(sub_queries) |->
                         _enhance_sub_query(sub_queries[i], query, F)],
     confidence |-> 85]

\* stop_words of _extract_key_concepts: 的 了 我 一个
StopWords == { <<"de">>, <<"le">>, <<"wo">>, <<"yi", "ge">> }

\* key_concepts[:3] of _extract_key_concepts
MAX_CONCEPTS == 3

\* _extract_key_concepts(query); [] when the extraction fails
_extract_key_concepts(query, F) ==
    IF "concepts" \in F THEN <<>>
    ELSE Take(SelectSeq(extract_tags(query),
                        LAMBDA w : w \notin StopWords /\ Len(w) > 1),
              MAX_CONCEPTS)

\* _generate_base_query(concept): f"什么是{concept}"
_generate_base_query(concept, F) ==
    IF "base_query" \in F THEN concept
    ELSE <<"shen2", "me", "shi4">> \o concept

\* _backtrack_retrieval(query)
_backtrack_retrieval(query, F) ==
    LET key_concepts == _extract_key_concepts(query, F) IN
    [strategy |-> "backtrack", original_query |-> query, optimized_query |-> query,
     sub_queries |-> <<query>> \o [i \in 1..Len(key_concepts) |->
                                      _generate_base_query(key_concepts[i], F)],
     confidence |-> 80]

\* hypotheses[:3] of _generate_hypotheses
MAX_HYPOTHESES == 3

\* _generate_hypotheses(query): for a query with ? or ？ the query without the
\* marks as 关于...的解答, ...的相关信息, ...的详细说明; otherwise the query with
\* 的特点, 的用途, 的推荐, 的对比; [] when the generation fails
_generate_hypotheses(query, F) ==
    LET bare == SelectSeq(query, LAMBDA ch : ch \notin {"?", "?f"}) IN
    IF "hypotheses" \in F THEN <<>>
    ELSE IF \E i \in 1..Len(query) : query[i] \in {"?", "?f"}
    THEN Take(<< <<"guan", "yu3">> \o bare \o <<"de", "jie", "da2">>,
                 bare \o <<"de", "xiang2", "guan", "xin", "xi2">>,
                 bare \o <<"de", "xiang3", "xi3", "shuo", "ming">> >>,
              MAX_HYPOTHESES)
    ELSE Take(<< query \o <<"de", "te", "dian">>,
                 query \o <<"de", "yong", "tu">>,
                 query \o <<"de", "tui", "jian3">>,
                 query \o <<"de", "dui", "bi">> >>,
              MAX_HYPOTHESES)

\* _hypothesis_to_query(hypothesis, original_query): 特点 gives "特点 优势", 用途
\* "用途 应用场景", 推荐 "推荐 选择", 对比 "对比 区别"
_hypothesis_to_query(hypothesis, original_query, F) ==
    IF "to_query" \in F THEN hypothesis
    ELSE IF Contains(hypothesis, <<"te", "dian">>)
    THEN original_query \o <<" ", "te", "dian", " ", "you4", "shi5">>
    ELSE IF Contains(hypothesis, <<"yong", "tu">>)
    THEN original_query \o <<" ", "yong", "tu", " ", "ying", "yong", "chang", "jing2">>
    ELSE IF Contains(hypothesis, <<"tui", "jian3">>)
    THEN original_query \o <<" ", "tui", "jian3", " ", "xuan", "ze">>
    ELSE IF Contains(hypothesis, <<"dui", "bi">>)
    THEN original_query \o <<" ", "dui", "bi", " ", "qu2", "bie">>
    ELSE hypothesis

\* _hypothesis_retrieval(query)
_hypothesis_retrieval(query, F) ==
    LET hypotheses == _generate_hypotheses(query, F) IN
    [strategy |-> "hypothesis", original_query |-> query, optimized_query |-> query,
     sub_queries |-> <<query>> \o [i \in 1..Len(hypotheses) |->
                                      _hypothesis_to_query(hypotheses[i], query, F)],
     confidence |-> 75]

\* optimize_query that takes a strategy name it does not know for "direct"
optimize_query_UnknownIsDirect(query, strategy, F) ==
    LET chosen == IF strategy = "auto" THEN _select_best_strategy(query, F)
                  ELSE strategy
    IN  CASE chosen = "subquery" -> _subquery_retrieval(query, F)
          [] chosen = "backtrack" -> _backtrack_retrieval(query, F)
          [] chosen = "hypothesis" -> _hypothesis_retrieval(query, F)
          [] OTHER -> _direct_retrieval(query, F)

\* optimize_query(query, strategy = "auto"): the ValueError for a strategy name
\* that is not supported is caught and answered with the fallback result
optimize_query(query, strategy, F) ==
    LET chosen == IF strategy = "auto" THEN _select_best_strategy(query, F)
                  ELSE strategy
    IN  CASE chosen = "direct" -> _direct_retrieval(query, F)
          [] chosen = "subquery" -> _subquery_retrieval(query, F)
          [] chosen = "backtrack" -> _backtrack_retrieval(query, F)
          [] chosen = "hypothesis" -> _hypothesis_retrieval(query, F)
          [] OTHER -> _fallback_optimization(query)

\* ------------------------------------------------- retrieval and fusion
\* Config.TOP_K, Config.TOP_M
TOP_K == 10
TOP_M == 5

\* the child blocks the index may return for a query, in the order of the
\* index, scores in hundredths; the parent of "c4" is in no index
ChildPool ==
    << [doc_id |-> "c1", parent_id |-> "p1", title |-> "t1", content |-> "C1",
        category |-> "shoes", similarity |-> 88, combined_score |-> 90],
       [doc_id |-> "c2", parent_id |-> "p1", title |-> "t2", content |-> "C2",
        category |-> "shoes", similarity |-> 71, combined_score |-> 70],
       [doc_id |-> "c3", parent_id |-> "p2", title |-> "t3", content |-> "C3",
        category |-> "balls", similarity |-> 93, combined_score |-> 90],
       [doc_id |-> "c4", parent_id |-> "p9", title |-> "t4", content |-> "C4",
        category |-> "balls", similarity |-> 90, combined_score |-> 95],
       [doc_id |-> "c5", parent_id |-> "p2", title |-> "t5", content |-> "C5",
        category |-> "balls", similarity |-> 65, combined_score |-> 70],
       [doc_id |-> "c6", parent_id |-> "p1", title |-> "t6", content |-> "C6",
        category |-> "shoes", similarity |-> 75, combined_score |-> 80],
       [doc_id |-> "c7", parent_id |-> "p2", title |-> "t7", content |-> "C7",
        category |-> "balls", similarity |-> 70, combined_score |-> 70],
       [doc_id |-> "c8", parent_id |-> "p1", title |-> "t8", content |-> "C8",
        category |-> "shoes", similarity |-> 52, combined_score |-> 50] >>

\* the parent blocks an index may hold; "keys" are the keys of the dict: the
\* second parent has no title
ParentPool ==
    << [doc_id |-> "p1", keys |-> {"doc_id", "title", "content"},
        title |-> "T1", content |-> "P1"],
       [doc_id |-> "p2", keys |-> {"doc_id", "content"},
        title |-> "", content |-> "P2"] >>

\* the elements of s at the positions in keep, in the order of s
RECURSIVE Pick(_, _)
Pick(s, keep) ==
    IF s = <<>> THEN <<>>
    ELSE LET init == Pick(SubSeq(s, 1, Len(s) - 1), keep) IN
         IF Len(s) \in keep THEN Append(init, s[Len(s)]) ELSE init

\* the indexes retrieval may meet: some of the child blocks match the query,
\* some of the parent blocks are stored
IndexStates ==
    {[children |-> Pick(ChildPool, cs), parents |-> Pick(ParentPool, ps)] :
        cs \in SUBSET (1..Len(ChildPool)), ps \in SUBSET (1..Len(ParentPool))}

\* the steps of retrieval that may raise
RetrievalSteps == {"embedder", "milvus.search", "milvus.parents"}

\* MilvusClient.hybrid_search(query_vector, sparse_vector, top_k): at most top_k
\* child blocks
hybrid_search(ix, top_k) == Take(ix.children, top_k)

\* MilvusClient.get_parent_documents(child_ids): the stored parent blocks of the
\* child blocks with these ids
get_parent_documents(ix, child_ids) ==
    SelectSeq(ix.parents,
              LAMBDA p : \E i \in 1..Len(ix.children) :
                            /\ ix.children[i].doc_id \in child_ids
                            /\ ix.children[i].parent_id = p.doc_id)

\* next((p for p in parent_documents if p["doc_id"] == parent_id), None)
ParentOf(parent_documents, parent_id) ==
    LET at == {i \in 1..Len(parent_documents) :
                  parent_documents[i].doc_id = parent_id}
    IN  IF at = {} THEN None
        ELSE [kind |-> "dict",
              doc |-> parent_documents[CHOOSE i \in at : \A j \in at : i <= j]]

\* a final_doc with the child's content before the parent's and the child's
\* title
FinalDoc_ChildFirst(child_doc, parent_doc) ==
    [doc_id |-> child_doc.doc_id,
     parent_id |-> child_doc.parent_id,
     title |-> child_doc.title,
     content |-> <<child_doc.content, "\n\n",
                   IF "content" \in parent_doc.keys THEN parent_doc.content ELSE "">>,
     category |-> child_doc.category,
     similarity |-> child_doc.similarity,
     combined_score |-> child_doc.combined_score]

\* the final_doc of a child block and its parent block
FinalDoc(child_doc, parent_doc) ==
    [doc_id |-> child_doc.doc_id,
     parent_id |-> child_doc.parent_id,
     title |-> IF "title" \in parent_doc.keys THEN parent_doc.title
               ELSE child_doc.title,
     content |-> <<IF "content" \in parent_doc.keys THEN parent_doc.content ELSE "",
                   "\n\n", child_doc.content>>,
     category |-> child_doc.category,
     similarity |-> child_doc.similarity,
     combined_score |-> child_doc.combined_score]

\* the merge loop that keeps a child block without a parent block as it is
RECURSIVE Merge_KeepOrphans(_, _)
Merge_KeepOrphans(child_documents, parent_documents) ==
    IF child_documents = <<>> THEN <<>>
    ELSE LET child_doc == Head(child_documents)
             parent_doc == ParentOf(parent_documents, child_doc.parent_id)
             rest == Merge_KeepOrphans(Tail(child_documents), parent_documents)
         IN  IF Truthy(parent_doc)
             THEN <<FinalDoc(child_doc, parent_doc.doc)>> \o rest
             ELSE <<[child_doc EXCEPT !.content = <<"", "\n\n", child_doc.content>>]>>
                  \o rest

\* the merge loop of _retrieve_documents: a final_doc for every child block whose
\* parent block is among parent_documents, in the order of the child blocks
RECURSIVE Merge(_, _)
Merge(child_documents, parent_documents) ==
    IF child_documents = <<>> THEN <<>>
    ELSE LET child_doc == Head(child_documents)
             parent_doc == ParentOf(parent_documents, child_doc.parent_id)
             rest == Merge(Tail(child_documents), parent_documents)
         IN  IF Truthy(parent_doc)
             THEN <<FinalDoc(child_doc, parent_doc.doc)>> \o rest
             ELSE rest

\* a sort by combined_score, descending, that puts a document before the
\* documents of the same score that preceded it
RECURSIVE SortByScore_TiesReversed(_)
SortByScore_TiesReversed(docs) ==
    IF docs = <<>> THEN <<>>
    ELSE LET init == SortByScore_TiesReversed(SubSeq(docs, 1, Len(docs) - 1))
             d == docs[Len(docs)]
             before == {i \in 1..Len(init) : init[i].combined_score > d.combined_score}
             n == Cardinality(before)
         IN  SubSeq(init, 1, n) \o <<d>> \o SubSeq(init, n + 1, Len(init))

\* list.sort(key = combined_score, reverse = True): stable, documents of the
\* same score keep their order
RECURSIVE SortByScore(_)
SortByScore(docs) ==
    IF docs = <<>> THEN <<>>
    ELSE LET init == SortByScore(SubSeq(docs, 1, Len(docs) - 1))
             d == docs[Len(docs)]
             before == {i \in 1..Len(init) : init[i].combined_score >= d.combined_score}
             n == Cardinality(before)
         IN  SubSeq(init, 1, n) \o <<d>> \o SubSeq(init, n + 1, Len(init))

\* what _retrieve_documents hands back when it has no documents
NoDocuments(query, child_ids, names, failed) ==
    [raised |-> FALSE, documents |-> <<>>, embedded |-> query,
     found |-> Cardinality(child_ids), fetched |-> child_ids, fused |-> <<>>,
     calls |-> names, faults |-> failed]

\* _retrieve_documents without its except clause: a failing embedder or index
\* raises
_retrieve_documents_Raises(query, optimization_result, ix, F) ==
    [NoDocuments(query, {}, <<"embedder">>, F) EXCEPT !.raised = F # {}]

\* _retrieve_documents(query, optimization_result), given the index and the
\* steps that raise: the documents, the text that was embedded, the number of
\* child blocks found, the ids handed to get_parent_documents, the merged
\* documents before the sort, and the collaborator calls made
_retrieve_documents(query, optimization_result, ix, F) ==
    LET child_documents == hybrid_search(ix, TOP_K)
        child_ids == {child_documents[i].doc_id : i \in 1..Len(child_documents)}
        parent_documents == get_parent_documents(ix, child_ids)
        final_documents == Merge(child_documents, parent_documents)
    IN  IF "embedder" \in F
        THEN NoDocuments(query, {}, <<"embedder">>, {"embedder"})
        ELSE IF "milvus.search" \in F
        THEN NoDocuments(query, {}, <<"embedder", "milvus.search">>,
                         {"milvus.search"})
        ELSE IF child_documents = <<>>
        THEN NoDocuments(query, {}, <<"embedder", "milvus.search">>, {})
        ELSE IF "milvus.parents" \in F
        THEN NoDocuments(query, child_ids,
                         <<"embedder", "milvus.search", "milvus.parents">>,
                         {"milvus.parents"})
        ELSE [raised |-> FALSE,
              documents |-> Take(SortByScore(final_documents), TOP_M),
              embedded |-> query, found |-> Cardinality(child_ids),
              fetched |-> child_ids, fused |-> final_documents,
              calls |-> <<"embedder", "milvus.search", "milvus.parents">>,
              faults |-> {}]

\* ------------------------------------------------------ DocumentProcessor
\* the characters \\s matches
Whitespace == {" ", "\n"}

\* str.strip()
RECURSIVE StripWs(_)
StripWs(s) ==
    IF s # <<>> /\ Head(s) \in Whitespace THEN StripWs(Tail(s))
    ELSE IF s # <<>> /\ s[Len(s)] \in Whitespace
    THEN StripWs(SubSeq(s, 1, Len(s) - 1))
    ELSE s

\* re.sub(r'\s+', ' ', s): every run of blanks and newlines becomes one blank
RECURSIVE CollapseWs(_)
CollapseWs(s) ==
    IF s = <<>> THEN <<>>
    ELSE IF Head(s) \in Whitespace
    THEN IF Len(s) > 1 /\ s[2] \in Whitespace THEN CollapseWs(Tail(s))
         ELSE <<" ">> \o CollapseWs(Tail(s))
    ELSE <<Head(s)>> \o CollapseWs(Tail(s))

\* re.sub(r'\n+', '\n', s): every run of newlines becomes one newline
RECURSIVE CollapseNewlines(_)
CollapseNewlines(s) ==
    IF Len(s) < 2 THEN s
    ELSE IF s[1] = "\n" /\ s[2] = "\n" THEN CollapseNewlines(Tail(s))
    ELSE <<s[1]>> \o CollapseNewlines(Tail(s))

\* characters outside the class of the second re.sub of _clean_content
ContentSpecialChars == {"#"}

\* _clean_content(content): strip, one blank per run of whitespace, special
\* characters removed, one newline per run of newlines
_clean_content(content) ==
    IF content = <<>> THEN <<>>
    ELSE CollapseNewlines(
             SelectSeq(CollapseWs(StripWs(content)),
                       LAMBDA ch : ch \notin ContentSpecialChars))

\* content.split('\n')
RECURSIVE SplitLines(_)
SplitLines(s) ==
    LET at == {i \in 1..Len(s) : s[i] = "\n"} IN
    IF at = {} THEN <<s>>
    ELSE LET i == CHOOSE k \in at : \A j \in at : k <= j
         IN  <<SubSeq(s, 1, i - 1)>> \o SplitLines(SubSeq(s, i + 1, Len(s)))

\* [p.strip() for p in content.split('\n') if p.strip()]
Paragraphs(content) ==
    LET ps == SplitLines(content)
        stripped == [i \in 1..Len(ps) |-> StripWs(ps[i])]
    IN  SelectSeq(stripped, LAMBDA para : para # <<>>)

\* if len(paragraph) < 10: continue
MIN_PARAGRAPH == 10

\* the child blocks of _split_document: one for every paragraph of at least
\* MIN_PARAGRAPH characters, numbered by the index of the paragraph
RECURSIVE ChildBlocks(_, _, _, _, _)
ChildBlocks(title, paragraphs, category, doc_id, i) ==
    IF i >= Len(paragraphs) THEN <<>>
    ELSE LET paragraph == paragraphs[i + 1]
             rest == ChildBlocks(title, paragraphs, category, doc_id, i + 1)
         IN  IF Len(paragraph) < MIN_PARAGRAPH THEN rest
             ELSE <<[doc_id |-> <<doc_id, "child", i>>,
                     parent_id |-> <<doc_id, "parent">>,
                     title |-> <<title, "para", i + 1>>,
                     content |-> paragraph, category |-> category,
                     block_type |-> "child", length |-> Len(paragraph),
                     paragraph_index |-> i]>> \o rest

\* _split_document(title, content, category, doc_id): the parent blocks and the
\* child blocks; the parent block holds the title and the first two paragraphs
_split_document(title, content, category, doc_id) ==
    LET paragraphs == Paragraphs(content)
        parent_content ==
            <<title>> \o <<"\n\n">> \o paragraphs[1]
            \o (IF Len(paragraphs) > 1 THEN <<"\n\n">> \o paragraphs[2] ELSE <<>>)
    IN  IF paragraphs = <<>> THEN [parent_blocks |-> <<>>, child_blocks |-> <<>>]
        ELSE [parent_blocks |->
                 <<[doc_id |-> <<doc_id, "parent">>, title |-> title,
                    content |-> parent_content, category |-> category,
                    block_type |-> "parent"]>>,
              child_blocks |-> ChildBlocks(title, paragraphs, category, doc_id, 0)]

\* _process_single_document(document), uuid4 being the id drawn for a document
\* without one: None for a document without content, else the blocks
_process_single_document(document, uuid4) ==
    LET cleaned_content == _clean_content(document.content)
        doc_id == IF document.doc_id # "" THEN document.doc_id ELSE uuid4
        blocks == _split_document(document.title, cleaned_content,
                                  document.category, doc_id)
    IN  IF document.content = <<>> \/ cleaned_content = <<>>
        THEN [kind |-> "None", parent_blocks |-> <<>>, child_blocks |-> <<>>,
              parent_count |-> 0, child_count |-> 0]
        ELSE [kind |-> "dict", parent_blocks |-> blocks.parent_blocks,
              child_blocks |-> blocks.child_blocks,
              parent_count |-> Len(blocks.parent_blocks),
              child_count |-> Len(blocks.child_blocks)]

\* -------------------------------------------------------------------- state
VARIABLES
    hashSeed,       \* the hash seed of the running service process
    now,            \* the clock, in seconds
    ticks,          \* clock ticks so far
    redis,          \* Redis: key -> [value, expireAt, ttl]
    qa_pairs,       \* MySQL table qa_pairs: a set of rows
    query_logs,     \* MySQL table query_logs: a sequence of rows
    pc,             \* per caller: position inside process_query
    query,          \* per caller: the query argument
    cached,         \* per caller: cached_response (result of _check_cache)
    mysql_response, \* per caller: result of _check_mysql
    response,       \* per caller: what process_query returned
    api,            \* per caller: the QueryResponse of /api/query
    rid,            \* per caller: number of the request
    calls,          \* per caller: collaborator calls of this request, in order
    faults,         \* per caller: the collaborator calls of this request that failed
    escaped,        \* per caller: message of the exception that left the tiers
    peers,          \* per caller: the callers inside process_query when it started
    prev,           \* per caller: the request that completed just before the probe
    last,           \* the request that completed last, nothing having run since
    nRequests,      \* process_query calls started
    nInserts,       \* add_qa_pair calls made
    nRestarts,      \* restarts of the service process
    rag,            \* per caller: what the RAG tier of this request did
    optimized,      \* the last optimize_query call: arguments and result
    retrieved,      \* the last _retrieve_documents call: arguments and result
    processed,      \* the last _process_single_document call: document and result
    added           \* the last add_qa_pair call: arguments, outcome, Redis before and after

vars == <<hashSeed, now, ticks, redis, qa_pairs, query_logs, pc, query, cached,
          mysql_response, response, api, rid, calls, faults, escaped, peers,
          prev, last,
          nRequests, nInserts, nRestarts, rag, optimized, retrieved, processed,
          added>>

\* the state of the requests, the cache and the store
engine == <<hashSeed, now, ticks, redis, qa_pairs, query_logs, pc, query, cached,
            mysql_response, response, api, rid, calls, faults, escaped, peers,
            prev, last, nRequests, nInserts, nRestarts, rag>>

\* --------------------------------------------------------- values and inputs
Plain(text) == [apology |-> FALSE, text |-> text]
\* f"抱歉，处理您的查询时出现错误，...错误信息：{str(e)}"
Apology(msg) == [apology |-> TRUE, text |-> msg]
NoReply == Plain("")

NoResponse ==
    [raised |-> FALSE, query |-> <<>>, reply |-> NoReply, source |-> "", error |-> ""]
NoApi == [success |-> FALSE, query |-> <<>>, reply |-> NoReply, source |-> "", error |-> ""]
NoLast ==
    [valid |-> FALSE, query |-> <<>>, reply |-> NoReply, source |-> "", at |-> 0,
     cached |-> FALSE]

\* what the intent model delivers: a failure, or a class with its probability
ClassifierResults ==
    {[failed |-> TRUE, intent_id |-> 0, confidence |-> 0]}
    \cup {[failed |-> FALSE, intent_id |-> i, confidence |-> 90] : i \in {0, 1}}
\* what the generative model delivers: a reply, or an exception
LlmResults ==
    {[failed |-> FALSE, text |-> r] : r \in Replies}
    \cup {[failed |-> TRUE, text |-> m] : m \in Failures}
\* the steps of the optimizer that raise during a request
RagOptimizerFaults == {{}, {"clean"}}
\* the indexes a request meets: no child block, or a child block with its parent
\* block and one whose parent block is missing
RagIndexStates ==
    {[children |-> <<>>, parents |-> <<>>],
     [children |-> Pick(ChildPool, {1, 4}), parents |-> Pick(ParentPool, {1})]}
\* the steps of retrieval that raise during a request
RagRetrievalFaults == {{}} \cup {{step} : step \in RetrievalSteps}

\* "optimization": None, and the documents of a request without retrieval
NoOptimization ==
    [strategy |-> "", original_query |-> <<>>, optimized_query |-> <<>>,
     sub_queries |-> <<>>, confidence |-> 0]
NoRetrieval == NoDocuments(<<>>, {}, <<>>, {})
NoRag ==
    [ran |-> FALSE, intent |-> [intent_id |-> -1, confidence |-> 0],
     optimization |-> NoOptimization, retrieval |-> NoRetrieval,
     generated |-> <<>>]
NoOptimized ==
    [valid |-> FALSE, query |-> <<>>, strategy |-> "", failed |-> {},
     result |-> NoOptimization]
NoRetrieved ==
    [valid |-> FALSE, query |-> <<>>, index |-> [children |-> <<>>, parents |-> <<>>],
     failed |-> {}, result |-> NoRetrieval]

\* the qa_pairs rows a deployment may start with
SampleRows ==
    {[id |-> 1, question |-> <<"a">>, answer |-> "ans1", confidence |-> 79,
      updated_at |-> 0],
     [id |-> 2, question |-> <<"a">>, answer |-> "ans2",
      confidence |-> THRESHOLD, updated_at |-> 0],
     [id |-> 3, question |-> <<"a">>, answer |-> "ans1",
      confidence |-> SAMPLE_CONFIDENCE, updated_at |-> 0]}

LowRow == CHOOSE r \in SampleRows : r.confidence < THRESHOLD
AtRow == CHOOSE r \in SampleRows : r.confidence = THRESHOLD
\* rows updated at different times before the service started: two of the same
\* confidence, and a more recent one of lower confidence
TieRows ==
    {[id |-> 4, question |-> <<"a">>, answer |-> "ans2",
      confidence |-> SAMPLE_CONFIDENCE, updated_at |-> -10],
     [id |-> 5, question |-> <<"a">>, answer |-> "ans1",
      confidence |-> SAMPLE_CONFIDENCE, updated_at |-> -20],
     [id |-> 6, question |-> <<"a">>, answer |-> "ans1",
      confidence |-> THRESHOLD, updated_at |-> -5]}
\* the tables a deployment may start with: empty, only a row below the
\* threshold, rows below and at the threshold, all sample rows, and the rows
\* updated at different times
InitTables == {{}, {LowRow}, {LowRow, AtRow}, SampleRows, TieRows}

\* no add_qa_pair call yet
NoAdded ==
    [valid |-> FALSE, question |-> <<>>, answer |-> "", returned |-> FALSE,
     inserted |-> FALSE, cache_written |-> FALSE, at |-> 0,
     before |-> EmptyMap, after |-> EmptyMap]

\* no _process_single_document call yet
NoProcessed ==
    [valid |-> FALSE,
     document |-> [doc_id |-> "", title |-> "", content |-> <<>>, category |-> ""],
     result |-> [kind |-> "None", parent_blocks |-> <<>>, child_blocks |-> <<>>,
                 parent_count |-> 0, child_count |-> 0]]

\* ------------------------------------------------------------------- Init
Init ==
    /\ hashSeed = 0
    /\ now = 0
    /\ ticks = 0
    /\ redis = EmptyMap
    /\ qa_pairs \in InitTables
    /\ query_logs = <<>>
    /\ pc = [c \in Callers |-> "idle"]
    /\ query = [c \in Callers |-> <<>>]
    /\ cached = [c \in Callers |-> None]
    /\ mysql_response = [c \in Callers |-> None]
    /\ response = [c \in Callers |-> NoResponse]
    /\ api = [c \in Callers |-> NoApi]
    /\ rid = [c \in Callers |-> 0]
    /\ calls = [c \in Callers |-> <<>>]
    /\ faults = [c \in Callers |-> {}]
    /\ escaped = [c \in Callers |-> ""]
    /\ peers = [c \in Callers |-> {}]
    /\ prev = [c \in Callers |-> NoLast]
    /\ last = NoLast
    /\ nRequests = 0
    /\ nInserts = 0
    /\ nRestarts = 0
    /\ rag = [c \in Callers |-> NoRag]
    /\ optimized = NoOptimized
    /\ retrieved = NoRetrieved
    /\ processed = NoProcessed
    /\ added = NoAdded

\* ------------------------------------------------------------ RAGEngine
\* _build_response(query, reply, source, ..., error)
_build_response(q, reply, source, error) ==
    [raised |-> FALSE, query |-> q, reply |-> reply, source |-> source,
     error |-> error]

\* an exception leaving process_query
Raised(q, msg) ==
    [raised |-> TRUE, query |-> q, reply |-> NoReply, source |-> "", error |-> msg]

\* the /api/query handler around rag_engine.process_query: success=True with the
\* fields of the response, success=False when the call raised
ApiQuery(r) ==
    IF r.raised
    THEN [success |-> FALSE, query |-> <<>>, reply |-> NoReply, source |-> "",
          error |-> r.error]
    ELSE [success |-> TRUE, query |-> r.query, reply |-> r.reply,
          source |-> r.source, error |-> ""]

\* _check_cache(query)
_check_cache(rd, t, seed, q, ok) == get_qa_cache(rd, t, seed, q, ok)

\* _cache_response that counts the query and leaves out set_qa_cache
_cache_response_NoSet(rd, t, seed, q, answer, okSet, okIncr) ==
    increment_query_count(rd, t, seed, q, okIncr)

\* _cache_response(query, answer): set_qa_cache, then increment_query_count
_cache_response(rd, t, seed, q, answer, okSet, okIncr) ==
    increment_query_count(set_qa_cache(rd, t, seed, q, answer, okSet),
                          t, seed, q, okIncr)

\* _log_query(user_id, query, response, source, response_time)
_log_query(logs, id, q, reply, source, ok) ==
    log_query(logs, id, q, reply, source, ok)

\* IntentClassifier.predict_intent that answers a failure of the model with the
\* professional class
predict_intent_DefaultProfessional(m) ==
    IF m.failed
    THEN [intent_id |-> 1, confidence |-> 50]
    ELSE [intent_id |-> m.intent_id, confidence |-> m.confidence]

\* IntentClassifier.predict_intent(text): class and probability of the model, or
\* the default (0, "通用知识", 0.5) when the model fails
predict_intent(m) ==
    IF m.failed
    THEN [intent_id |-> 0, confidence |-> 50]
    ELSE [intent_id |-> m.intent_id, confidence |-> m.confidence]

\* IntentClassifierManager.classify_query(query)
classify_query(m) == predict_intent(m)

\* process_query hands r to its caller; wrote: the answer was written to the cache
Return(c, r, wrote) ==
    /\ response' = [response EXCEPT ![c] = r]
    /\ api' = [api EXCEPT ![c] = ApiQuery(r)]
    /\ pc' = [pc EXCEPT ![c] = "done"]
    /\ last' = [valid |-> TRUE, query |-> query[c], reply |-> r.reply,
                source |-> r.source, at |-> now, cached |-> wrote]

\* process_query moves on to its next step
Goto(c, label) ==
    /\ pc' = [pc EXCEPT ![c] = label]
    /\ last' = NoLast
    /\ UNCHANGED <<response, api>>

Called(c, names, failed) ==
    /\ calls' = [calls EXCEPT ![c] = @ \o names]
    /\ faults' = [faults EXCEPT ![c] = @ \cup failed]

\* /api/query receives a request and calls process_query(query)
StartQuery(c, q) ==
    /\ pc[c] \in {"idle", "done"}
    /\ nRequests < MaxRequests
    /\ nRequests' = nRequests + 1
    /\ pc' = [pc EXCEPT ![c] = "check_cache"]
    /\ query' = [query EXCEPT ![c] = q]
    /\ rid' = [rid EXCEPT ![c] = nRequests + 1]
    /\ cached' = [cached EXCEPT ![c] = None]
    /\ mysql_response' = [mysql_response EXCEPT ![c] = None]
    /\ response' = [response EXCEPT ![c] = NoResponse]
    /\ api' = [api EXCEPT ![c] = NoApi]
    /\ calls' = [calls EXCEPT ![c] = <<>>]
    /\ faults' = [faults EXCEPT ![c] = {}]
    /\ escaped' = [escaped EXCEPT ![c] = ""]
    /\ peers' = [peers EXCEPT ![c] =
                   {d \in Callers \ {c} : pc[d] \notin {"idle", "done"}}]
    /\ prev' = [prev EXCEPT ![c] = NoLast]
    /\ rag' = [rag EXCEPT ![c] = NoRag]
    /\ UNCHANGED <<hashSeed, now, ticks, redis, qa_pairs, query_logs, last,
                   nInserts, nRestarts,
                   optimized, retrieved, processed, added>>

\* process_query without the return in "if cached_response:": the probe is made
\* and the store is asked all the same
CheckCache_NoReturn(c) ==
    /\ pc[c] = "check_cache"
    /\ \E ok \in BOOLEAN :
         /\ cached' = [cached EXCEPT ![c] =
                         _check_cache(redis, now, hashSeed, query[c], ok)]
         /\ Called(c, <<"redis.get">>, IF ok THEN {} ELSE {"redis.get"})
         /\ Goto(c, "check_mysql")
    /\ prev' = [prev EXCEPT ![c] =
                  IF last.valid /\ now < last.at + CACHE_EXPIRE_TIME
                  THEN last ELSE NoLast]
    /\ UNCHANGED <<hashSeed, now, ticks, redis, qa_pairs, query_logs, query,
                   mysql_response, rid, escaped, peers, nRequests, nInserts,
                   nRestarts,
                   rag, optimized, retrieved, processed, added>>

\* 1. the cache probe; a hit returns the cached answer with source "cache"
CheckCache(c) ==
    /\ pc[c] = "check_cache"
    /\ \E ok \in BOOLEAN :
         LET v == _check_cache(redis, now, hashSeed, query[c], ok) IN
         /\ cached' = [cached EXCEPT ![c] = v]
         /\ Called(c, <<"redis.get">>, IF ok THEN {} ELSE {"redis.get"})
         /\ IF Truthy(v)
            THEN Return(c, _build_response(query[c], Plain(v.answer), "cache", ""),
                        FALSE)
            ELSE Goto(c, "check_mysql")
    /\ prev' = [prev EXCEPT ![c] =
                  IF last.valid /\ now < last.at + CACHE_EXPIRE_TIME
                  THEN last ELSE NoLast]
    /\ UNCHANGED <<hashSeed, now, ticks, redis, qa_pairs, query_logs, query,
                   mysql_response, rid, escaped, peers, nRequests, nInserts,
                   nRestarts,
                   rag, optimized, retrieved, processed, added>>

\* a store probe whose failure leaves the tiers and ends the request with the
\* apology
CheckMysql_FailureEscapes(c) ==
    /\ pc[c] = "check_mysql"
    /\ \E ok \in BOOLEAN :
         IF ok
         THEN \E m \in search_qa(qa_pairs, query[c], TRUE) :
                /\ mysql_response' = [mysql_response EXCEPT ![c] = m]
                /\ Called(c, <<"mysql.search">>, {})
                /\ Goto(c, IF Truthy(m) THEN "cache_response" ELSE "rag")
                /\ UNCHANGED <<query_logs, escaped>>
         ELSE /\ Called(c, <<"mysql.search">>, {"mysql.search"})
              /\ escaped' = [escaped EXCEPT ![c] = "store unreachable"]
              /\ query_logs' = _log_query(query_logs, rid[c], query[c],
                                          Apology("store unreachable"), "error",
                                          TRUE)
              /\ Return(c, _build_response(query[c], Apology("store unreachable"),
                                           "error", "store unreachable"), FALSE)
              /\ UNCHANGED mysql_response
    /\ UNCHANGED <<hashSeed, now, ticks, redis, qa_pairs, query,
                   cached, rid, peers, prev, nRequests, nInserts,
                   nRestarts,
                   rag, optimized, retrieved, processed, added>>

\* 2. the store probe
CheckMysql(c) ==
    /\ pc[c] = "check_mysql"
    /\ \E ok \in BOOLEAN :
         \E m \in search_qa(qa_pairs, query[c], ok) :
           /\ mysql_response' = [mysql_response EXCEPT ![c] = m]
           /\ Called(c, <<"mysql.search">>, IF ok THEN {} ELSE {"mysql.search"})
           /\ Goto(c, IF Truthy(m) THEN "cache_response" ELSE "rag")
    /\ UNCHANGED <<hashSeed, now, ticks, redis, qa_pairs, query_logs, query,
                   cached, rid, escaped, peers, prev, nRequests, nInserts,
                   nRestarts,
                   rag, optimized, retrieved, processed, added>>

\* 2. a store hit: the answer is written to the cache, then returned with
\* source "mysql"; no query log is written
StoreHit(c) ==
    /\ pc[c] = "cache_response"
    /\ \E okSet \in BOOLEAN, okIncr \in BOOLEAN :
         LET answer == mysql_response[c].row.answer IN
         /\ redis' = _cache_response(redis, now, hashSeed, query[c], answer,
                                     okSet, okIncr)
         /\ Called(c, <<"redis.set", "redis.incr">>,
                   (IF okSet THEN {} ELSE {"redis.set"})
                   \cup (IF okIncr THEN {} ELSE {"redis.incr"}))
         /\ Return(c, _build_response(query[c], Plain(answer), "mysql", ""), okSet)
    /\ UNCHANGED <<hashSeed, now, ticks, qa_pairs, query_logs, query, cached,
                   mysql_response, rid, escaped, peers, prev, nRequests,
                   nInserts, nRestarts,
                   rag, optimized, retrieved, processed, added>>

\* a route that does not look at the intent
is_professional_Always(intent_result) == TRUE

\* is_professional = intent_result["intent_id"] == 1
is_professional(intent_result) == intent_result.intent_id = 1

\* _process_with_rag(query), given what the collaborators deliver: the intent
\* model (m), the optimizer steps that raise (Fo), the index (ix), the retrieval
\* steps that raise (Fr), the first call of the generative model (g1) and the
\* call in the except clause (g2).  The result is the returned dict, or an
\* exception (raised) when the call in the except clause fails too; "trace" is
\* what the tier did: the classification, the optimization result, the
\* retrieval, and the arguments of the calls of the generative model.
_process_with_rag(q, m, Fo, ix, Fr, g1, g2) ==
    LET intent_result == classify_query(m)
        professional == is_professional(intent_result)
        optimization_result == optimize_query(q, "auto", Fo)
        retrieval == _retrieve_documents(q, optimization_result, ix, Fr)
        documents == retrieval.documents
        generate == [query |-> q,
                     documents |-> IF professional THEN documents ELSE <<>>,
                     is_general |-> ~professional]
        again == [query |-> q, documents |-> <<>>, is_general |-> TRUE]
        generated == professional => ~retrieval.raised
        tried == IF professional
                 THEN <<"classifier", "optimizer">> \o retrieval.calls
                      \o (IF generated THEN <<"llm.documents">> ELSE <<>>)
                 ELSE <<"classifier", "llm.general">>
        failed == (IF m.failed THEN {"classifier"} ELSE {})
                  \cup (IF professional THEN retrieval.faults ELSE {})
                  \cup (IF generated /\ g1.failed THEN {"llm"} ELSE {})
        trace(gs) ==
            [ran |-> TRUE, intent |-> intent_result,
             optimization |-> IF professional THEN optimization_result
                              ELSE NoOptimization,
             retrieval |-> IF professional THEN retrieval ELSE NoRetrieval,
             generated |-> gs]
        e == IF generated THEN g1.text ELSE "retrieval failed"
    IN  IF generated /\ ~g1.failed
        THEN [raised |-> FALSE, exc |-> "", reply |-> g1.text,
              intent |-> intent_result,
              path |-> IF professional THEN "professional_consultation"
                       ELSE "general_knowledge",
              documents |-> IF professional THEN documents ELSE <<>>,
              optimization |-> IF professional THEN optimization_result
                               ELSE NoOptimization,
              error |-> "", calls |-> tried, faults |-> failed,
              trace |-> trace(<<generate>>)]
        ELSE IF ~g2.failed
        THEN [raised |-> FALSE, exc |-> "", reply |-> g2.text,
              intent |-> [intent_id |-> -1, confidence |-> 50],
              path |-> "fallback", documents |-> <<>>,
              optimization |-> NoOptimization,
              error |-> e, calls |-> tried \o <<"llm.general">>,
              faults |-> failed,
              trace |-> trace((IF generated THEN <<generate>> ELSE <<>>)
                              \o <<again>>)]
        ELSE [raised |-> TRUE, exc |-> g2.text, reply |-> "",
              intent |-> [intent_id |-> -1, confidence |-> 50],
              path |-> "", documents |-> <<>>, optimization |-> NoOptimization,
              error |-> e, calls |-> tried \o <<"llm.general">>,
              faults |-> failed,
              trace |-> trace((IF generated THEN <<generate>> ELSE <<>>)
                              \o <<again>>)]

\* 3./4. the RAG tier: _process_with_rag, then the query log with source "rag"
\* and the response; the reply is not written to the cache
RagOutcome(c, out, okLog) ==
    /\ query_logs' = _log_query(query_logs, rid[c], query[c], Plain(out.reply),
                                "rag", okLog)
    /\ Return(c, _build_response(query[c], Plain(out.reply), "rag", ""), FALSE)

\* an except clause that returns the apology without the _log_query call
ExceptOutcome_NoLog(c, e, okLog) ==
    /\ query_logs' = query_logs
    /\ Return(c, _build_response(query[c], Apology(e), "error", e), FALSE)

\* an except clause that logs and raises again
ExceptOutcome_Reraise(c, e, okLog) ==
    /\ query_logs' = _log_query(query_logs, rid[c], query[c], Apology(e), "error",
                                okLog)
    /\ Return(c, Raised(query[c], e), FALSE)

\* the except clause of process_query: the apology with the exception's message
\* is logged with source "error" and returned
ExceptOutcome(c, e, okLog) ==
    LET error_response == Apology(e) IN
    /\ query_logs' = _log_query(query_logs, rid[c], query[c], error_response,
                                "error", okLog)
    /\ Return(c, _build_response(query[c], error_response, "error", e), FALSE)

\* for every query, every result of _process_with_rag over what the
\* collaborators may deliver
RagResults ==
    [q \in Queries |->
        {_process_with_rag(q, m, Fo, ix, Fr, g1, g2) :
            m \in ClassifierResults, Fo \in RagOptimizerFaults,
            ix \in RagIndexStates, Fr \in RagRetrievalFaults,
            g1 \in LlmResults, g2 \in LlmResults}]

\* for every query, the results of _process_with_rag when no collaborator of the
\* RAG tier fails
RagResultsUnfailing ==
    [q \in Queries |->
        {_process_with_rag(q, m, {}, ix, {}, g, g) :
            m \in {r \in ClassifierResults : ~r.failed}, ix \in RagIndexStates,
            g \in {r \in LlmResults : ~r.failed}}]

\* the RAG tier of process_query with one of the given results
RagStep(c, results) ==
    /\ pc[c] = "rag"
    /\ \E out \in results, okLog \in BOOLEAN :
         /\ Called(c, out.calls \o <<"mysql.log">>,
                   out.faults \cup (IF okLog THEN {} ELSE {"mysql.log"}))
         /\ escaped' = [escaped EXCEPT ![c] = out.exc]
         /\ rag' = [rag EXCEPT ![c] = out.trace]
         /\ IF out.raised
            THEN ExceptOutcome(c, out.exc, okLog)
            ELSE RagOutcome(c, out, okLog)
    /\ UNCHANGED <<hashSeed, now, ticks, redis, qa_pairs, query, cached,
                   mysql_response, rid, peers, prev, nRequests, nInserts,
                   nRestarts, optimized, retrieved, processed, added>>

RagTier(c) == RagStep(c, RagResults[query[c]])

\* the RAG tier while its collaborators are up
RagTierUnfailing(c) == RagStep(c, RagResultsUnfailing[query[c]])

\* optimize_query(query, strategy) called on its own, some of its steps raising;
\* the optimizer keeps no state, so one call is made
OptimizeQuery(q, strategy, F) ==
    /\ ~optimized.valid
    /\ optimized' = [valid |-> TRUE, query |-> q, strategy |-> strategy,
                     failed |-> F, result |-> optimize_query(q, strategy, F)]
    /\ UNCHANGED engine
    /\ UNCHANGED <<retrieved, processed, added>>

\* _retrieve_documents(query, optimization_result) called on its own against an
\* index, some of its steps raising; one call is made
RetrieveDocuments(q, ix, F) ==
    /\ ~retrieved.valid
    /\ retrieved' = [valid |-> TRUE, query |-> q, index |-> ix, failed |-> F,
                     result |-> _retrieve_documents(q, optimize_query(q, "auto", {}),
                                                    ix, F)]
    /\ UNCHANGED engine
    /\ UNCHANGED <<optimized, processed, added>>

\* _process_single_document(document) called on its own; one call is made
ProcessSingleDocument(document, uuid4) ==
    /\ ~processed.valid
    /\ processed' = [valid |-> TRUE, document |-> document,
                     result |-> _process_single_document(document, uuid4)]
    /\ UNCHANGED engine
    /\ UNCHANGED <<optimized, retrieved, added>>

\* add_qa_pair that writes the cache whether or not the insert succeeded
AddQaPair_CacheAlways(q, a) ==
    /\ nInserts < MaxInserts
    /\ nInserts' = nInserts + 1
    /\ \E okInsert \in BOOLEAN, okSet \in BOOLEAN, okIncr \in BOOLEAN :
         LET success == okInsert IN
         /\ qa_pairs' = IF success THEN insert_qa(qa_pairs, now, q, a) ELSE qa_pairs
         /\ redis' = _cache_response(redis, now, hashSeed, q, a, okSet, okIncr)
         /\ added' = [valid |-> TRUE, question |-> q, answer |-> a,
                      returned |-> success, inserted |-> okInsert,
                      cache_written |-> okSet, at |-> now,
                      before |-> redis, after |-> redis']
         /\ last' = [valid |-> TRUE, query |-> q, reply |-> Plain(a),
                     source |-> "add_qa_pair", at |-> now, cached |-> okSet]
    /\ UNCHANGED <<hashSeed, now, ticks, query_logs, pc, query, cached,
                   mysql_response, response, api, rid, calls, faults,
                   escaped, peers, prev, nRequests, nRestarts,
                   rag, optimized, retrieved, processed>>

\* add_qa_pair(question, answer): insert_qa, on success _cache_response, and the
\* outcome of the insert is returned; a failure of the cache is swallowed by
\* _cache_response
AddQaPair(q, a) ==
    /\ nInserts < MaxInserts
    /\ nInserts' = nInserts + 1
    /\ \E okInsert \in BOOLEAN, okSet \in BOOLEAN, okIncr \in BOOLEAN :
         LET success == okInsert IN
         /\ IF success
            THEN /\ qa_pairs' = insert_qa(qa_pairs, now, q, a)
                 /\ redis' = _cache_response(redis, now, hashSeed, q, a, okSet,
                                             okIncr)
            ELSE UNCHANGED <<qa_pairs, redis>>
         /\ added' = [valid |-> TRUE, question |-> q, answer |-> a,
                      returned |-> success, inserted |-> okInsert,
                      cache_written |-> success /\ okSet, at |-> now,
                      before |-> redis, after |-> redis']
         /\ last' = [valid |-> TRUE, query |-> q, reply |-> Plain(a),
                     source |-> "add_qa_pair", at |-> now,
                     cached |-> success /\ okSet]
    /\ UNCHANGED <<hashSeed, now, ticks, query_logs, pc, query, cached,
                   mysql_response, response, api, rid, calls, faults,
                   escaped, peers, prev, nRequests, nRestarts,
                   rag, optimized, retrieved, processed>>

\* time passes; Redis drops the keys whose expiry time has come
Tick ==
    /\ ticks < MaxTicks
    /\ ticks' = ticks + 1
    /\ now' = now + TickStep
    /\ redis' = Purge(redis, now + TickStep)
    /\ UNCHANGED <<hashSeed, qa_pairs, query_logs, pc, query, cached,
                   mysql_response, response, api, rid, calls, faults,
                   escaped, peers, prev, last, nRequests, nInserts, nRestarts,
                   rag, optimized, retrieved, processed, added>>

\* the service process is started anew while no request is in it: the new
\* interpreter has its own hash seed; Redis and MySQL keep their content
Restart ==
    /\ nRestarts < MaxRestarts
    /\ \A c \in Callers : pc[c] \in {"idle", "done"}
    /\ nRestarts' = nRestarts + 1
    /\ hashSeed' \in HashSeeds
    /\ UNCHANGED <<now, ticks, redis, qa_pairs, query_logs, pc, query, cached,
                   mysql_response, response, api, rid, calls, faults,
                   escaped, peers, prev, last, nRequests, nInserts,
                   rag, optimized, retrieved, processed, added>>

\* one request at a time: the calls of one client, and the clock
Next ==
    \/ \E q \in Queries : StartQuery("c1", q)
    \/ CheckCache("c1")
    \/ CheckMysql("c1")
    \/ StoreHit("c1")
    \/ RagTier("c1")
    \/ Tick

Spec == Init /\ [][Next]_vars

\* two clients whose requests overlap, on an empty and on a filled qa_pairs
\* table; the cache and the store may fail, the collaborators of the RAG tier
\* are up
InitConcurrent == Init /\ qa_pairs \in {{}, SampleRows}

NextConcurrent ==
    \/ \E c \in Callers, q \in {<<"a">>, <<"b">>} : StartQuery(c, q)
    \/ \E c \in Callers : CheckCache(c)
    \/ \E c \in Callers : CheckMysql(c)
    \/ \E c \in Callers : StoreHit(c)
    \/ \E c \in Callers : RagTierUnfailing(c)

SpecConcurrent == InitConcurrent /\ [][NextConcurrent]_vars

\* one request at a time, with restarts of the service process
NextRestart == Next \/ Restart

SpecRestart == Init /\ [][NextRestart]_vars

\* one request at a time, with add_qa_pair calls; the cache and the store may
\* fail, the collaborators of the RAG tier are up
NextAdmin ==
    \/ \E q \in Queries : StartQuery("c1", q)
    \/ CheckCache("c1")
    \/ CheckMysql("c1")
    \/ StoreHit("c1")
    \/ RagTierUnfailing("c1")
    \/ Tick
    \/ \E a \in Answers : AddQaPair(<<"a">>, a)

SpecAdmin == Init /\ [][NextAdmin]_vars

\* queries for the optimizer
\* 篮球鞋多少钱
Q_ShoePrice == <<"lan", "qiu", "xie2", "duo", "shao", "qian">>
\* 跑步鞋好不好
Q_RunningShoe == <<"pao", "bu", "xie2", "hao", "bu4", "hao">>
\* 篮球怎么打好呢
Q_HowToPlay == <<"lan", "qiu", "zen", "me", "da", "hao", "ne">>
\* 什么篮球
Q_WhichBall == <<"shen2", "me", "lan", "qiu">>
\* 我想买一双适合在室外水泥地打篮球的耐磨鞋子
Q_LongSports ==
    <<"wo", "xiang", "mai", "yi", "shuang", "shi", "he2", "zai", "shi2", "wai",
      "shui", "ni", "di", "da", "lan", "qiu", "de", "nai", "mo", "xie2", "zi">>
\* 我想买一双适合在室外水泥地打篮球的鞋子选哪个
Q_LongSportsWhich ==
    <<"wo", "xiang", "mai", "yi", "shuang", "shi", "he2", "zai", "shi2", "wai",
      "shui", "ni", "di", "da", "lan", "qiu", "de", "xie2", "zi", "xuan", "na",
      "ge">>
\* 我想买一双适合在室外水泥地玩桌游的耐磨鞋子
Q_LongOther ==
    <<"wo", "xiang", "mai", "yi", "shuang", "shi", "he2", "zai", "shi2", "wai",
      "shui", "ni", "di", "wan2", "zhuo", "you2", "de", "nai", "mo", "xie2",
      "zi">>
\* 今天天气很好我们出去玩
Q_Weather ==
    <<"jin", "tian", "tian", "qi4", "hen", "hao", "wo", "men", "chu", "qu",
      "wan2">>
\* 篮球鞋多少钱？
Q_ShoePriceAsked == Q_ShoePrice \o <<"?f">>
\* 护膝和篮球哪个好
Q_KneePadOrBall == <<"hu", "xi", "he3", "lan", "qiu", "na", "ge", "hao">>
\* 哪个护膝好
Q_WhichKneePad == <<"na", "ge", "hu", "xi", "hao">>
\* 篮球鞋一个多少钱
Q_ShoePriceEach == <<"lan", "qiu", "xie2", "yi", "ge", "duo", "shao", "qian">>
\* 篮球|足球价格表
Q_BallsBar == <<"lan", "qiu", "|", "zu", "qiu", "jia2", "ge2", "biao">>
OptQueries ==
    {Q_ShoePrice, Q_RunningShoe, Q_HowToPlay, Q_WhichBall, Q_LongSports,
     Q_LongSportsWhich, Q_LongOther, Q_Weather, Q_ShoePriceAsked, <<"a", " ">>,
     Q_KneePadOrBall, Q_WhichKneePad, Q_ShoePriceEach, Q_BallsBar}
\* the strategy names optimize_query knows, and one it does not know
KnownStrategies == {"auto", "direct", "subquery", "backtrack", "hypothesis"}
StrategyNames == KnownStrategies \cup {"semantic"}
\* no step of the optimizer raises, or one does
OptimizerFaults == {{}} \cup {{step} : step \in OptimizerSteps}

\* a deployment without QA pairs
InitEmpty == Init /\ qa_pairs = {}

\* optimize_query on its own
NextOptimizer ==
    \E q \in OptQueries, strategy \in StrategyNames, F \in OptimizerFaults :
        OptimizeQuery(q, strategy, F)

SpecOptimizer == InitEmpty /\ [][NextOptimizer]_vars

\* a run of n word characters
Word(n) == [i \in 1..n |-> "x"]
\* the lines a document is written from: empty, short, of the minimum length,
\* short once its special character is removed, long between blanks, and long
\* around a special character
Lines ==
    { <<>>, Word(4), Word(10), Word(9) \o <<"#">>,
      <<" ">> \o Word(12) \o <<" ">>, Word(5) \o <<" ", "#", " ">> \o Word(5) }
\* the lines joined with newlines
RECURSIVE JoinLines(_)
JoinLines(ls) ==
    IF ls = <<>> THEN <<>>
    ELSE IF Len(ls) = 1 THEN ls[1]
    ELSE ls[1] \o <<"\n">> \o JoinLines(Tail(ls))
\* documents of up to MaxLines lines, with and without an id and a title
Documents ==
    {[doc_id |-> id, title |-> t, content |-> JoinLines(ls), category |-> "gear"] :
        id \in {"d1", ""}, t \in {"T", ""},
        ls \in UNION {[1..n -> Lines] : n \in 0..MaxLines}}
Uuids == {"u1", "u2"}

\* _process_single_document on its own
NextDocuments ==
    \E document \in Documents, uuid4 \in Uuids :
        ProcessSingleDocument(document, uuid4)

SpecDocuments == InitEmpty /\ [][NextDocuments]_vars

\* _retrieve_documents on its own
NextRetrieval ==
    \E ix \in IndexStates, F \in RagRetrievalFaults :
        RetrieveDocuments(Q_ShoePrice, ix, F)

SpecRetrieval == InitEmpty /\ [][NextRetrieval]_vars

\* ================================================================== claims
InFlight == {"check_cache", "check_mysql", "cache_response", "rag"}
Done(c) == pc[c] = "done"
\* the query_logs rows the current request of c wrote
LogRows(c) == {i \in 1..Len(query_logs) : query_logs[i].request = rid[c]}
Range(f) == {f[i] : i \in DOMAIN f}
\* the live QA entries of the cache
QaEntries == {k \in Live(redis, now) : k[1] = "qa"}
\* the request that completed just before c probed the cache, within the TTL,
\* asked the same query
Repeats(c) == Done(c) /\ prev[c].valid /\ prev[c].query = query[c]

\* C1: a request whose cache probe finds an entry returns the cached answer with
\* source "cache" at once: its only collaborator call is the cache read (no
\* store probe, no classifier, optimizer, retriever or generator, no cache
\* write) and it writes no query log.
C1_CacheHitShortCircuits ==
    \A c \in Callers :
        Truthy(cached[c]) =>
            /\ Done(c)
            /\ response[c].source = "cache"
            /\ response[c].reply = Plain(cached[c].answer)
            /\ calls[c] = <<"redis.get">>
            /\ LogRows(c) = {}

C1_Witness ==
    \E c \in Callers :
        /\ Truthy(cached[c]) /\ Done(c) /\ response[c].source = "cache"
        /\ cached[c].question = query[c]

C3_Claim ==
    \A c \in Callers :
        /\ Repeats(c) /\ prev[c].source \in {"mysql", "rag"}
        /\ (prev[c].source = "mysql" => prev[c].cached)
        /\ cached[c] # PyFalse
        => response[c].source = "cache" /\ response[c].reply = prev[c].reply

\* C4: a request resolved at the store tier or the RAG tier appends exactly one
\* query-log row (the log write not failing), a cache hit appends none.
C4_Claim ==
    \A c \in Callers :
        Done(c) =>
            /\ response[c].source \in {"mysql", "rag"} /\ "mysql.log" \notin faults[c]
               => Cardinality(LogRows(c)) = 1
            /\ response[c].source = "cache" => LogRows(c) = {}

\* C5: when an exception leaves the tiers, process_query does not raise: it
\* returns source "error" with the apology that carries the exception's message,
\* and appends one query-log row with source "error" and that apology, or none
\* when the log write itself fails.
C5_EscapedFailureIsApologised ==
    \A c \in Callers :
        escaped[c] # "" =>
            /\ Done(c)
            /\ ~response[c].raised
            /\ response[c].source = "error"
            /\ response[c].reply = Apology(escaped[c])
            /\ response[c].error = escaped[c]
            /\ IF "mysql.log" \in faults[c]
               THEN LogRows(c) = {}
               ELSE /\ Cardinality(LogRows(c)) = 1
                    /\ \A i \in LogRows(c) :
                         /\ query_logs[i].source = "error"
                         /\ query_logs[i].query = query[c]
                         /\ query_logs[i].response = response[c].reply

C5_Witness ==
    \E c \in Callers :
        /\ escaped[c] # "" /\ Done(c) /\ response[c].source = "error"
        /\ Cardinality(LogRows(c)) = 1

\* C6: whatever fails, a request that has started can take its next step (the
\* RAG tier has a result for it, the other steps are enabled), and
\* once it ends process_query has returned (not raised) a response with a
\* reply for the query, which /api/query hands on with success=true.
C6_AlwaysAReply ==
    \A c \in Callers :
        /\ pc[c] \in InFlight \ {"rag"} =>
             ENABLED (CheckCache(c) \/ CheckMysql(c) \/ StoreHit(c))
        /\ pc[c] = "rag" => RagResults[query[c]] # {}
        /\ Done(c) =>
             /\ ~response[c].raised
             /\ response[c].query = query[c]
             /\ response[c].reply.text # ""
             /\ api[c].success
             /\ api[c].reply = response[c].reply
             /\ api[c].source = response[c].source

C6_Witness ==
    \E c \in Callers :
        /\ Done(c) /\ api[c].success /\ response[c].source = "error"
        /\ {"redis.get", "mysql.search", "classifier", "llm", "mysql.log"}
               \subseteq faults[c]

\* C7: two overlapping requests for the same query that is neither cached nor in
\* the store, nothing failing, both end with a RAG reply, both have written the
\* cache, and the cache then holds an entry for the query with one of the two
\* replies.
C7_Claim ==
    \A c \in Callers, d \in Callers :
        /\ c # d /\ d \in peers[c] /\ Done(c) /\ Done(d)
        /\ query[c] = query[d]
        /\ response[c].source = "rag" /\ response[d].source = "rag"
        /\ faults[c] \cup faults[d] = {}
        => /\ "redis.set" \in Range(calls[c])
           /\ "redis.set" \in Range(calls[d])
           /\ LET v == get_qa_cache(redis, now, hashSeed, query[c], TRUE) IN
              /\ Truthy(v)
              /\ v.answer \in {response[c].reply.text, response[d].reply.text}

\* C8: a live cache entry written for a question is found by get_qa_cache for
\* every query that differs from the question only in leading or trailing
\* blanks.
C8_Claim ==
    \A k \in QaEntries : \A q \in Queries :
        Strip(q) = Strip(redis[k].value.question) =>
            get_qa_cache(redis, now, hashSeed, q, TRUE) = redis[k].value

\* C9: a live cache entry written for a question by any run of the service is
\* found by get_qa_cache for that question in the run that is up now.
C9_Claim ==
    \A k \in QaEntries :
        get_qa_cache(redis, now, hashSeed, redis[k].value.question, TRUE)
            = redis[k].value

\* C10: what the store probe returns is a row of qa_pairs that matches the query
\* and has confidence >= 0.8, and a response with source "mysql" carries the
\* answer of such a row; a matching row below the threshold is never returned.
C10_StoreHitMeetsThreshold ==
    \A c \in Callers :
        /\ Truthy(mysql_response[c]) =>
             /\ mysql_response[c].row \in qa_pairs
             /\ mysql_response[c].row.confidence >= THRESHOLD
             /\ Matches(mysql_response[c].row.question, query[c])
        /\ Done(c) /\ response[c].source = "mysql" =>
             /\ Truthy(mysql_response[c])
             /\ response[c].reply = Plain(mysql_response[c].row.answer)

C10_Witness ==
    \E c \in Callers :
        /\ Done(c) /\ response[c].source = "mysql"
        /\ LowRow \in qa_pairs /\ Matches(LowRow.question, query[c])
        /\ mysql_response[c].row.confidence = THRESHOLD

\* C11: the row the store probe returns matches the query, has confidence >= 0.8
\* and is ranked first among all such rows: none of them has a higher
\* confidence, and none of the same confidence was updated later.  Neither the
\* id nor the recency of a row of lower confidence decides.
C11_StoreProbeRanking ==
    \A c \in Callers :
        Truthy(mysql_response[c]) =>
            LET r == mysql_response[c].row
                rows == {s \in qa_pairs : /\ Matches(s.question, query[c])
                                          /\ s.confidence >= THRESHOLD}
            IN  /\ r \in rows
                /\ \A s \in rows :
                     /\ s.confidence <= r.confidence
                     /\ s.confidence = r.confidence => s.updated_at <= r.updated_at

C11_Witness ==
    \E c \in Callers :
        /\ qa_pairs = TieRows /\ Truthy(mysql_response[c])
        /\ mysql_response[c].row.updated_at = -10
        /\ Done(c) /\ response[c].source = "mysql"
        /\ response[c].reply = Plain("ans2")

\* the strategy the rules of section 4.3 give for the features of a query
RuleStrategy(length, tokenCount, hasQuestionMarker, hasDomainTerm) ==
    IF length < 10 /\ tokenCount <= 3 THEN "direct"
    ELSE IF hasQuestionMarker /\ hasDomainTerm THEN "subquery"
    ELSE IF length > 20 /\ tokenCount > 8 THEN "backtrack"
    ELSE IF hasDomainTerm /\ ~hasQuestionMarker THEN "hypothesis"
    ELSE "direct"
\* the query is a sports query: it contains a domain term
IsSportsQuery(q) == \E term \in SportsTerms : Contains(q, term)
\* an optimize_query(query, "auto") call whose analysis of the query did not fail
AutoCall == optimized.valid /\ optimized.strategy = "auto"

\* C12: with strategy "auto" the result has the strategy of the first rule that
\* applies to the features of the query (length, token count, question marker,
\* domain term as the optimizer computes them), in the order direct for short
\* queries, subquery, backtrack, hypothesis, direct; the short query 篮球鞋多少钱
\* with its domain term is direct.
C12_StrategySelection ==
    AutoCall /\ "features" \notin optimized.failed =>
        LET q == optimized.query IN
        /\ optimized.result.strategy =
              RuleStrategy(Len(q), Len(jieba_cut(q)), has_question_words(q),
                           _contains_sports_terms(q, optimized.failed))
        /\ q = Q_ShoePrice => optimized.result.strategy = "direct"
        /\ Len(q) < 10 /\ Len(jieba_cut(q)) <= 3 =>
              optimized.result.strategy = "direct"

C12_Witness ==
    /\ AutoCall /\ optimized.failed = {}
    /\ optimized.query = Q_ShoePrice /\ IsSportsQuery(optimized.query)
    /\ ~has_question_words(optimized.query)
    /\ optimized.result.strategy = "direct"

C14_UnknownStrategyFallsBack ==
    optimized.valid /\ optimized.strategy \notin KnownStrategies =>
        /\ optimized.result.strategy = "fallback"
        /\ optimized.result.original_query = optimized.query
        /\ optimized.result.optimized_query = optimized.query
        /\ optimized.result.sub_queries = <<optimized.query>>
        /\ optimized.result.confidence = 50

C14_Witness ==
    /\ optimized.valid /\ optimized.strategy = "semantic"
    /\ optimized.query = <<"a", " ">>
    /\ optimized.result.strategy = "fallback"
    /\ optimized.result.sub_queries = << <<"a", " ">> >>

\* the step every call of a strategy starts with
FirstStep ==
    [direct |-> "clean", subquery |-> "decompose", backtrack |-> "concepts",
     hypothesis |-> "hypotheses"]
\* the strategy an optimize_query call selects
Selected ==
    IF optimized.strategy = "auto"
    THEN _select_best_strategy(optimized.query, optimized.failed)
    ELSE optimized.strategy

\* C15: when a step of the selected strategy fails, optimize_query returns the
\* fallback result: strategy fallback, the query as only sub-query, confidence
\* 0.5.
C15_Claim ==
    /\ optimized.valid /\ Selected \in DOMAIN FirstStep
    /\ FirstStep[Selected] \in optimized.failed
    => /\ optimized.result.strategy = "fallback"
       /\ optimized.result.sub_queries = <<optimized.query>>
       /\ optimized.result.confidence = 50

\* the calls the RAG tier of the request of c made: those between the store
\* probe and the query log
RagCalls(c) == SubSeq(calls[c], 3, Len(calls[c]) - 1)
\* the request of c ran the RAG tier and has ended
RagDone(c) == Done(c) /\ rag[c].ran
\* the first call of the generative model was made and failed
Retried(c) == IF "llm" \in faults[c] THEN <<"llm.general">> ELSE <<>>

C17_Claim ==
    \A c \in Callers :
        RagDone(c) /\ "embedder" \in Range(calls[c]) =>
            rag[c].retrieval.embedded
                \in {rag[c].optimization.optimized_query}
                    \cup Range(rag[c].optimization.sub_queries)

\* C18: when the intent model fails, the classification is intent 0 with
\* confidence 0.5 and nothing is raised for it; the request takes the general
\* path: the generator is called in general mode, no optimizer and no retrieval
\* call is made, and the response has source "rag" unless the generator fails
\* in both of its calls.
C18_ClassifierFailureIsGeneral ==
    \A c \in Callers :
        RagDone(c) /\ "classifier" \in faults[c] =>
            /\ rag[c].intent = [intent_id |-> 0, confidence |-> 50]
            /\ RagCalls(c) = <<"classifier", "llm.general">> \o Retried(c)
            /\ rag[c].generated[1].is_general
            /\ Range(calls[c]) \cap ({"optimizer"} \cup RetrievalSteps) = {}
            /\ escaped[c] \in Failures \cup {""}
            /\ escaped[c] = "" => response[c].source = "rag"

C18_Witness ==
    \E c \in Callers :
        /\ RagDone(c) /\ faults[c] = {"classifier"}
        /\ response[c].source = "rag" /\ api[c].success

\* the retrieval of the request of c yielded nothing: the embedder or the index
\* raised, or the search found no child block
NothingRetrieved(c) ==
    /\ RagDone(c) /\ "embedder" \in Range(calls[c])
    /\ faults[c] \cap RetrievalSteps # {} \/ rag[c].retrieval.found = 0

\* C19: when the search finds no child block, or the embedder or the index
\* raises, _retrieve_documents returns an empty list and raises nothing: the
\* generator is called with the query and no documents, no exception of the
\* retrieval leaves the tier, and the response has source "rag" and a reply that
\* is not empty, unless the generator itself fails in both of its calls.
C19_EmptyRetrievalStillAnswers ==
    \A c \in Callers :
        NothingRetrieved(c) =>
            /\ ~rag[c].retrieval.raised
            /\ rag[c].retrieval.documents = <<>>
            /\ rag[c].generated[1] =
                  [query |-> query[c], documents |-> <<>>, is_general |-> FALSE]
            /\ escaped[c] \in Failures \cup {""}
            /\ escaped[c] = "" =>
                  /\ response[c].source = "rag"
                  /\ ~response[c].reply.apology
                  /\ response[c].reply.text # ""
                  /\ api[c].success

C19_Witness ==
    \E c \in Callers :
        /\ NothingRetrieved(c) /\ faults[c] = {"milvus.search"}
        /\ response[c].source = "rag" /\ response[c].reply.text # ""

\* the child candidates of the last retrieval, and the ids of the parent blocks
\* that were fetched for them
Candidates == hybrid_search(retrieved.index, TOP_K)
FetchedParents ==
    LET ps == get_parent_documents(retrieved.index, retrieved.result.fetched)
    IN  {ps[i].doc_id : i \in 1..Len(ps)}
\* the ids of a list of blocks or documents
Ids(docs) == {docs[i].doc_id : i \in 1..Len(docs)}

\* C20: when retrieval merges the child candidates with the fetched parent
\* blocks, the merged documents are exactly the candidates whose parent_id is
\* the id of a fetched parent block, one document each, in the order of the
\* candidates; a candidate without such a parent is left out and nothing is
\* raised; what is returned is taken from the merged documents.
C20_FusionDropsOrphans ==
    retrieved.valid /\ retrieved.failed = {} /\ Candidates # <<>> =>
        LET fused == retrieved.result.fused
            kept == SelectSeq(Candidates,
                              LAMBDA ch : ch.parent_id \in FetchedParents)
        IN  /\ ~retrieved.result.raised /\ retrieved.result.faults = {}
            /\ Len(fused) = Len(kept)
            /\ \A i \in 1..Len(fused) :
                 /\ fused[i].doc_id = kept[i].doc_id
                 /\ fused[i].parent_id = kept[i].parent_id
            /\ \A i \in 1..Len(Candidates) :
                 Candidates[i].parent_id \notin FetchedParents =>
                     Candidates[i].doc_id \notin Ids(fused)
            /\ Range(retrieved.result.documents) \subseteq Range(fused)

C20_Witness ==
    /\ retrieved.valid /\ retrieved.failed = {}
    /\ \E i \in 1..Len(Candidates) :
         /\ Candidates[i].parent_id \notin FetchedParents
         /\ Candidates[i].doc_id \notin Ids(retrieved.result.fused)
    /\ \E i \in 1..Len(Candidates) :
         /\ Candidates[i].parent_id \in FetchedParents
         /\ Candidates[i].doc_id \in Ids(retrieved.result.documents)

\* the child candidate with an id, and the stored parent block with an id
CandidateOf(id) ==
    Candidates[CHOOSE i \in 1..Len(Candidates) : Candidates[i].doc_id = id]
StoredParent(id) ==
    LET ps == retrieved.index.parents
    IN  ps[CHOOSE i \in 1..Len(ps) : ps[i].doc_id = id]

\* C21: every merged document, and so every returned one, is built from one
\* child candidate and its parent block: it has the candidate's id and
\* parent_id, its content is the parent's content, a blank line, the child's
\* content, in that order, its title is the parent's title when the parent has
\* one and the child's title otherwise, and its category, similarity and
\* combined score are the candidate's.
C21_FusedDocumentContent ==
    retrieved.valid =>
        \A d \in Range(retrieved.result.fused) \cup Range(retrieved.result.documents) :
            LET ch == CandidateOf(d.doc_id)
                pa == StoredParent(d.parent_id)
            IN  /\ d.doc_id \in Ids(Candidates)
                /\ d.parent_id = ch.parent_id
                /\ d.parent_id \in FetchedParents
                /\ d.content = <<pa.content, "\n\n", ch.content>>
                /\ d.title = (IF "title" \in pa.keys THEN pa.title ELSE ch.title)
                /\ d.similarity = ch.similarity
                /\ d.combined_score = ch.combined_score
                /\ d.category = ch.category

C21_Witness ==
    /\ retrieved.valid
    /\ \E d \in Range(retrieved.result.documents) :
         /\ d.title = "T1" /\ d.content = <<"P1", "\n\n", "C1">>
    /\ \E d \in Range(retrieved.result.documents) :
         /\ d.title = "t3" /\ d.content = <<"P2", "\n\n", "C3">>

\* the position of a merged document among the merged documents, which are in
\* the order in which the index returned their child blocks
FusedAt(id) ==
    LET fs == retrieved.result.fused
    IN  CHOOSE i \in 1..Len(fs) : fs[i].doc_id = id

\* C22: the documents _retrieve_documents returns are the first TOP_M of the
\* merged documents in descending order of combined score, ties in the order of
\* the index: there are min(TOP_M, number of merged documents) of them, each is
\* a merged document, they are in descending order of score, two of the same
\* score are in index order, and a merged document left out has no higher score
\* than a returned one and, at the same score, a later index position.
C22_TopMByScoreStable ==
    (retrieved.valid /\ retrieved.result.fused # <<>>) =>
        LET fs == retrieved.result.fused
            ds == retrieved.result.documents
            omitted == {f \in Range(fs) : f \notin Range(ds)}
        IN  /\ Len(ds) <= TOP_M
            /\ Len(ds) = (IF Len(fs) < TOP_M THEN Len(fs) ELSE TOP_M)
            /\ Range(ds) \subseteq Range(fs)
            /\ \A i, j \in 1..Len(ds) :
                 i < j => \/ ds[i].combined_score > ds[j].combined_score
                          \/ /\ ds[i].combined_score = ds[j].combined_score
                             /\ FusedAt(ds[i].doc_id) < FusedAt(ds[j].doc_id)
            /\ \A f \in omitted : \A i \in 1..Len(ds) :
                 \/ f.combined_score < ds[i].combined_score
                 \/ /\ f.combined_score = ds[i].combined_score
                    /\ FusedAt(ds[i].doc_id) < FusedAt(f.doc_id)

\* more than TOP_M merged documents, one left out with the score of a returned
\* one, and two returned ones of the same score
C22_Witness ==
    /\ retrieved.valid
    /\ Len(retrieved.result.fused) > TOP_M
    /\ Len(retrieved.result.documents) = TOP_M
    /\ \E f \in Range(retrieved.result.fused) :
         /\ f \notin Range(retrieved.result.documents)
         /\ \E d \in Range(retrieved.result.documents) :
              d.combined_score = f.combined_score
    /\ \E i \in 1..(TOP_M - 1) :
         retrieved.result.documents[i].combined_score
             = retrieved.result.documents[i + 1].combined_score

\* C25: after a search that found child candidates, the ids handed to the one
\* get_parent_documents call are the distinct parent_id values of the
\* candidates.
C25_Claim ==
    (/\ retrieved.valid
     /\ Candidates # <<>>
     /\ "milvus.parents" \in Range(retrieved.result.calls)) =>
        retrieved.result.fetched
            = {Candidates[i].parent_id : i \in 1..Len(Candidates)}

\* C23: a cache read that fails gives a falsy result and the store is probed
\* next; a store probe that fails gives None and the RAG tier runs next,
\* starting with the classifier.  A request with a failed lookup ends with
\* source "mysql" or "rag", or with source "error" only when the exception that
\* left the tiers is the one of the generative model's call in the except
\* clause of the RAG tier.
C23_LookupFailureIsAMiss ==
    \A c \in Callers :
        /\ "redis.get" \in faults[c] =>
             /\ cached[c] = PyFalse
             /\ \/ pc[c] = "check_mysql"
                \/ /\ Len(calls[c]) >= 2
                   /\ calls[c][2] = "mysql.search"
        /\ "mysql.search" \in faults[c] =>
             /\ mysql_response[c] = None
             /\ \/ pc[c] = "rag"
                \/ /\ Done(c) /\ rag[c].ran
                   /\ Len(calls[c]) >= 3
                   /\ calls[c][3] = "classifier"
        /\ Done(c) /\ faults[c] \cap {"redis.get", "mysql.search"} # {} =>
             IF escaped[c] = ""
             THEN response[c].source \in {"mysql", "rag"}
             ELSE /\ response[c].source = "error"
                  /\ escaped[c] \in Failures
                  /\ rag[c].ran
                  /\ calls[c][Len(calls[c]) - 1] = "llm.general"

C23_Witness ==
    \E c \in Callers :
        /\ Done(c)
        /\ faults[c] = {"redis.get", "mysql.search"}
        /\ SubSeq(calls[c], 1, 3) = <<"redis.get", "mysql.search", "classifier">>
        /\ response[c].source = "rag"

\* C24: a request whose first call of the generative model in the RAG tier
\* failed ends with source "error" and a query-log row with source "error".
C24_Claim ==
    \A c \in Callers :
        RagDone(c) /\ "llm" \in faults[c] /\ "mysql.log" \notin faults[c] =>
            /\ response[c].source = "error"
            /\ \E i \in LogRows(c) : query_logs[i].source = "error"

\* the hints the table of the subquery strategy gives for the domain terms a
\* phrase contains: 防护装备 for 护膝 护腕 护肘, 健身器材 for 跑步 健身 瑜伽, 运动装备
\* for 篮球 足球 网球, 体育用品 for a phrase with none of them
HintsFor(phrase) ==
    LET any(terms) == \E term \in terms : Contains(phrase, term)
        protective == any({<<"hu", "xi">>, <<"hu", "wan">>, <<"hu", "zhou">>})
        fitness == any({<<"pao", "bu">>, <<"jian", "shen">>, <<"yu2", "jia">>})
        ball == any({<<"lan", "qiu">>, <<"zu", "qiu">>, <<"wang", "qiu">>})
    IN  (IF protective THEN {<<"fang", "hu", "zhuang", "bei">>} ELSE {})
        \cup (IF fitness THEN {<<"jian", "shen", "qi3", "cai">>} ELSE {})
        \cup (IF ball THEN {<<"yun", "dong", "zhuang", "bei">>} ELSE {})
        \cup (IF ~protective /\ ~fitness /\ ~ball
              THEN {<<"ti", "yu4", "yong", "pin">>} ELSE {})

\* C28: the sub-queries of the subquery strategy are the phrases of the query
\* of two or more characters, at most five, each followed by a blank and the
\* hint the table gives for the domain terms the phrase contains.
C28_Claim ==
    (/\ optimized.valid /\ optimized.failed = {}
     /\ optimized.result.strategy = "subquery") =>
        LET phrases == _decompose_query(optimized.query, {})
            subs == optimized.result.sub_queries
        IN  /\ Len(subs) = Len(phrases)
            /\ Len(subs) <= MAX_SUB_QUERIES
            /\ \A i \in 1..Len(subs) :
                 /\ Len(phrases[i]) >= 2
                 /\ \E h \in HintsFor(phrases[i]) :
                      subs[i] = phrases[i] \o <<" ">> \o h

\* the question words 什么 怎么 如何 为什么 哪个 哪些
QuestionWords ==
    { <<"shen2", "me">>, <<"zen", "me">>, <<"ru", "he">>,
      <<"wei", "shen2", "me">>, <<"na", "ge">>, <<"na", "xie">> }
\* the query contains a question word as a whole
HasQuestionWord(q) == \E w \in QuestionWords : Contains(q, w)

\* C29: the question-marker feature of strategy selection is true exactly for
\* the queries that contain a whole question word, and the strategy chosen for
\* "auto" is the one the rules give with that feature.
C29_Claim ==
    AutoCall /\ optimized.failed = {} =>
        LET q == optimized.query IN
        /\ has_question_words(q) <=> HasQuestionWord(q)
        /\ optimized.result.strategy =
              RuleStrategy(Len(q), Len(jieba_cut(q)), HasQuestionWord(q),
                           IsSportsQuery(q))

\* the paragraphs of a document's content: its lines without special characters
\* and without blanks around them, the empty ones left out
ContentParagraphs(content) ==
    LET ls == SplitLines(content)
        kept == [i \in 1..Len(ls) |->
                    StripWs(SelectSeq(ls[i], LAMBDA ch : ch \notin ContentSpecialChars))]
    IN  SelectSeq(kept, LAMBDA para : para # <<>>)

\* C27: for a document with content, _process_single_document gives one child
\* block for every paragraph of the content (the text between two newlines) of
\* at least 10 characters, in their order, and none for a shorter paragraph;
\* every child block has the id of the document's one parent block as parent_id.
C27_Claim ==
    (processed.valid /\ processed.document.content # <<>>) =>
        LET r == processed.result
            long == SelectSeq(ContentParagraphs(processed.document.content),
                              LAMBDA para : Len(para) >= MIN_PARAGRAPH)
        IN  /\ Len(r.child_blocks) = Len(long)
            /\ \A i \in 1..Len(r.child_blocks) :
                 /\ Len(r.child_blocks[i].content) >= MIN_PARAGRAPH
                 /\ Len(r.parent_blocks) = 1
                 /\ r.child_blocks[i].parent_id = r.parent_blocks[1].doc_id

\* C26: every live QA entry of the cache was written with the TTL of 3600
\* seconds, and no step of a process_query or add_qa_pair call changes the answer
\* of a QA entry that has not expired.
C26_Claim ==
    /\ [](\A k \in QaEntries : redis[k].ttl = CACHE_EXPIRE_TIME)
    /\ [][\A k \in QaEntries :
             now' < redis[k].expireAt =>
                 /\ k \in DOMAIN redis'
                 /\ redis'[k].value.answer = redis[k].value.answer]_vars

\* the request of c probed the cache right after an add_qa_pair call for its
\* query that wrote the cache, before the entry expired
AfterAdd(c) ==
    /\ prev[c].valid /\ prev[c].source = "add_qa_pair" /\ prev[c].cached
    /\ prev[c].query = query[c]

\* C30: add_qa_pair returns the outcome of the insert.  When the insert fails it
\* returns false and leaves the cache as it was.  When the insert succeeds the
\* row is in the store and, the cache write not failing, the cache holds the new
\* answer under the question's key with the configured TTL, whatever it held
\* before; the request that probes the cache next for that question (the read
\* not failing, the entry not expired) returns the new answer with source
\* "cache".
C30_AddThenServeFromCache ==
    /\ added.valid =>
         /\ added.returned = added.inserted
         /\ ~added.inserted => /\ ~added.returned
                                /\ added.after = added.before
         /\ added.inserted =>
              \E r \in qa_pairs : /\ r.question = added.question
                                   /\ r.answer = added.answer
                                   /\ r.confidence = INSERT_CONFIDENCE
         /\ added.cache_written =>
              LET k == QaKey(hashSeed, added.question) IN
              /\ k \in DOMAIN added.after
              /\ added.after[k].value.answer = added.answer
              /\ added.after[k].value.question = added.question
              /\ added.after[k].expireAt = added.at + CACHE_EXPIRE_TIME
    /\ \A c \in Callers :
         AfterAdd(c) /\ pc[c] # "check_cache" /\ cached[c] # PyFalse =>
             /\ Done(c)
             /\ response[c].source = "cache"
             /\ response[c].reply = prev[c].reply

\* an older entry with another answer was replaced, and the next request was
\* served the new answer from the cache
C30_Witness ==
    \E c \in Callers :
        /\ AfterAdd(c) /\ Done(c) /\ response[c].source = "cache"
        /\ added.valid /\ added.returned
        /\ response[c].reply = Plain(added.answer)
        /\ LET k == QaKey(hashSeed, added.question) IN
           /\ k \in DOMAIN added.before
           /\ added.before[k].value.answer # added.answer

====
